---- MODULE Spec2Model ----
(***************************************************************************)
(* Droop STV counting engine: the Meek/Warren counter (droop/rules/meek.py) *)
(* and the PRF WIGM counter (droop/rules/wigm_prf.py), over the arithmetic  *)
(* kernel (fixed, guarded, rational).                                       *)
(*                                                                          *)
(* A count is a sequential program; the state below is the Election object  *)
(* (candidate state, ballots, round quantities), the rule classes' class    *)
(* attributes, the caller's options, and the position of the count (pc).    *)
(***************************************************************************)
EXTENDS Integers, Sequences, FiniteSets, TLC

\* ------------------------------------------------------------------ bounds
NCand      == 4    \* candidates 1..NCand; cid = ballot-file order
MaxBallots == 2    \* ballot lines of a profile of the bounded family
MaxMult    == 2    \* multiplicity of a ballot line of the bounded family
MaxRank    == 2    \* length of a ranking of the bounded family
MaxRounds  == 5    \* newRound() is not modelled past this round number
MaxCounts  == 3    \* counts run one after another in one process (ProcSpec)
MaxVote    == 3    \* votes and surpluses handed to batchDefeat on its own (BatchSpec)

Cands == 1..NCand

VARIABLES
    \* the profile (read-only during a count)
    nSeats,        \* E.nSeats / electionProfile.nSeats
    withdrawn,     \* E.withdrawn: set of cids
    ballots,       \* sequence of [multiplier, ranking]
    given,         \* the options as the caller gave them
    \* options and rule-class attributes
    options,       \* the options dict handed to Rule.options (mutated by it)
    arith,         \* the arithmetic kernel E.V: [name, precision, guard]
    warren,        \* meek.Rule.warren        (class attribute)
    omega,         \* meek.Rule.omega         (class attribute, digits)
    omegaV,        \* meek.Rule._omega        (class attribute, a value)
    defeatBatch,   \* meek.Rule.defeatBatch   (class attribute)
    wigmName,      \* wigm_prf.Rule.name      (class attribute)
    wigmBatch,     \* wigm_prf.Rule.defeatBatch (class attribute)
    \* the election
    status,        \* cid -> withdrawn | hopeful | pending | elected | defeated
    vote,          \* cid -> value
    kf,            \* cid -> value (Meek keep factor)
    quota, votes, surplus, residual,   \* round quantities (values)
    lastsurplus,   \* iterate()'s local
    iStatus,       \* why the last iterate() pass ended
    batch,         \* the batch chosen by batchDefeat in the last pass
    round,         \* R.n
    weight,        \* ballot index -> b.weight
    bresidual,     \* ballot index -> b.residual (Meek)
    cursor,        \* ballot index -> position of b.topRank in its ranking (WIGM)
    log,           \* action log: sequence of [n, kind, cand]
    pc,            \* position of the count
    \* the process
    nCounts,       \* counts started in this process
    outcomes       \* finished counts of this process: sequence of [input, log, elected]

profileVars  == <<nSeats, withdrawn, ballots, given>>
classVars    == <<warren, omega, omegaV, defeatBatch, wigmName, wigmBatch>>
roundVars    == <<quota, votes, surplus, residual, lastsurplus, iStatus, batch, round>>
ballotVars   == <<weight, bresidual, cursor>>
candVars     == <<status, vote, kf>>
procVars     == <<nCounts, outcomes>>
vars == <<profileVars, options, arith, classVars, candVars, roundVars, ballotVars,
          log, pc, procVars>>

\* --------------------------------------------------------------- arithmetic
\* A value of fixed(p) or guarded(p, g) is the integer x that stands for
\* x * 10^-(p+g); a rational value is a reduced pair <<num, den>>, den > 0.

RECURSIVE Pow10(_)
Pow10(n) == IF n = 0 THEN 1 ELSE 10 * Pow10(n - 1)

Abs(x) == IF x < 0 THEN -x ELSE x

RECURSIVE GCD(_, _)
GCD(a, b) == IF b = 0 THEN a ELSE GCD(b, a % b)

\* always-reduced rational; d # 0
Norm(n, d) ==
    LET s == IF d < 0 THEN -1 ELSE 1
        g == GCD(Abs(n), Abs(d))
    IN  IF n = 0 THEN <<0, 1>> ELSE <<(s * n) \div g, (s * d) \div g>>

Exact == arith.name = "rational"
Scale == Pow10(arith.precision + arith.guard)
\* 10^-p in units of 10^-(p+g): the width within which guarded values are equal
Geps  == Pow10(arith.guard)

V(n) == IF Exact THEN <<n, 1>> ELSE n * Scale
V0 == V(0)
V1 == V(1)
Epsilon == IF Exact THEN <<0, 1>> ELSE Geps

VAdd(a, b) == IF Exact THEN Norm(a[1] * b[2] + b[1] * a[2], a[2] * b[2]) ELSE a + b
VSub(a, b) == IF Exact THEN Norm(a[1] * b[2] - b[1] * a[2], a[2] * b[2]) ELSE a - b
\* value * int (b.weight * b.multiplier): exact
VTimes(a, m) == IF Exact THEN Norm(a[1] * m, a[2]) ELSE a * m

VMul(a, b, rnd) ==
    IF Exact THEN Norm(a[1] * b[1], a[2] * b[2])
    ELSE IF rnd = "up" THEN (a * b + Scale - 1) \div Scale
    ELSE IF rnd = "nearest" THEN (a * b + Scale \div 2) \div Scale
    ELSE (a * b) \div Scale

VDiv(a, b, rnd) ==
    IF Exact THEN Norm(a[1] * b[2], a[2] * b[1])
    ELSE IF rnd = "up" THEN (a * Scale + b - 1) \div b
    ELSE IF rnd = "nearest" THEN (a * Scale + b \div 2) \div b
    ELSE (a * Scale) \div b

VEq(a, b) == IF Exact THEN a = b ELSE Abs(a - b) < Geps
VLt(a, b) == IF Exact THEN a[1] * b[2] < b[1] * a[2] ELSE a < b /\ ~VEq(a, b)
VLe(a, b) == VLt(a, b) \/ VEq(a, b)
VGt(a, b) == VLt(b, a)
VGe(a, b) == VLe(b, a)

\* sum(values, V0) over a set of candidates
RECURSIVE VSum(_, _)
VSum(f, S) ==
    IF S = {} THEN V0
    ELSE LET c == CHOOSE x \in S : \A y \in S : x <= y
         IN  VAdd(f[c], VSum(f, S \ {c}))

\* ------------------------------------------------- candidate state (views)
\* Derived sets are views computed from each candidate's status.
Hopeful(st)   == {c \in Cands : st[c] = "hopeful"}
Elected(st)   == {c \in Cands : st[c] = "elected"}
Pending(st)   == {c \in Cands : st[c] = "pending"}
Defeated(st)  == {c \in Cands : st[c] = "defeated"}
HopefulOrElected(st) == Hopeful(st) \cup Elected(st)

\* E.seatsLeftToFill()
SeatsLeftToFill(st) == nSeats - Cardinality(Elected(st)) - Cardinality(Pending(st))

\* E.nBallots: the total ballot count N
RECURSIVE NBallotsFrom(_, _)
NBallotsFrom(bs, i) ==
    IF i > Len(bs) THEN 0 ELSE bs[i].multiplier + NBallotsFrom(bs, i + 1)
NBallots == NBallotsFrom(ballots, 1)

\* a set of cids as the sequence in ballot-file order (sortByOrder / byTieOrder)
RECURSIVE SortByOrder(_)
SortByOrder(S) ==
    IF S = {} THEN <<>>
    ELSE LET c == CHOOSE x \in S : \A y \in S : x <= y
         IN  <<c>> \o SortByOrder(S \ {c})

\* raw order of two values (the kernel's own representation)
RawLt(a, b) == IF Exact THEN a[1] * b[2] < b[1] * a[2] ELSE a < b

\* sortByVote: ascending by vote, ties by ballot order
RECURSIVE SortByVote(_, _)
SortByVote(S, vt) ==
    IF S = {} THEN <<>>
    ELSE LET c == CHOOSE x \in S : \A y \in S \ {x} :
                      RawLt(vt[x], vt[y]) \/ (~RawLt(vt[y], vt[x]) /\ x < y)
         IN  <<c>> \o SortByVote(S \ {c}, vt)

\* V.min over the votes of the candidates of a sequence (Python's min: the
\* first value no later value is below)
RECURSIVE VMinFrom(_, _, _, _)
VMinFrom(cs, i, vt, m) ==
    IF i > Len(cs) THEN m
    ELSE VMinFrom(cs, i + 1, vt, IF VLt(vt[cs[i]], m) THEN vt[cs[i]] ELSE m)
VMin(S, vt) == LET cs == SortByOrder(S) IN VMinFrom(cs, 2, vt, vt[cs[1]])

\* sum of the votes of the candidates of a sequence
RECURSIVE VSumSeq(_, _, _)
VSumSeq(cs, i, vt) ==
    IF i > Len(cs) THEN V0 ELSE VAdd(vt[cs[i]], VSumSeq(cs, i + 1, vt))

\* a top rank that does not skip withdrawn candidates
TopPosFirst(rk, i) == i

\* topCand(ballot): first candidate of the ranking that is not withdrawn
\* (its position; Len+1 when there is none)
RECURSIVE TopPos(_, _)
TopPos(rk, i) ==
    IF i > Len(rk) THEN i
    ELSE IF rk[i] \notin withdrawn THEN i ELSE TopPos(rk, i + 1)

LogEntry(n, kind, c) == [n |-> n, kind |-> kind, cand |-> c]
\* status changes that write nothing to the log
LogNone(cs, i, n, kind) == <<>>

\* one log entry per candidate of a sequence
RECURSIVE LogAll(_, _, _, _)
LogAll(cs, i, n, kind) ==
    IF i > Len(cs) THEN <<>>
    ELSE <<LogEntry(n, kind, cs[i])>> \o LogAll(cs, i + 1, n, kind)

\* ------------------------------------------------------------------ inputs
Injective(s) == \A i, j \in DOMAIN s : i # j => s[i] # s[j]
\* rankings: no duplicates within a ballot
Rankings == {r \in UNION {[1..k -> Cands] : k \in 1..MaxRank} : Injective(r)}
Lines == [multiplier : 1..MaxMult, ranking : Rankings]
FamilyBallots == UNION {[1..k -> Lines] : k \in 1..MaxBallots}
Withdrawns == {{}, {NCand}}
FamilyProfiles == [nSeats : 1..NCand, withdrawn : Withdrawns, ballots : FamilyBallots]

Line(m, r) == [multiplier |-> m, ranking |-> r]
Profile(s, w, bs) == [nSeats |-> s, withdrawn |-> w, ballots |-> bs]
\* the candidates past the n a scenario names take no part in it
Beyond(n) == {c \in Cands : c > n}
\* spec section 8, end-to-end scenarios 1 and 2: 1 Castor, 2 Pollux, 3 Helen
Castor == 1
Pollux == 2
Helen  == 3
CastorPollux ==
    Profile(2, Beyond(3), <<Line(4, <<Castor, Pollux>>), Line(2, <<Helen>>)>>)
\* spec section 8, end-to-end scenario 3: 1 A, 2 B, 3 C
ThreeWay ==
    Profile(1, Beyond(3), <<Line(3, <<1, 2>>), Line(2, <<2, 3>>), Line(2, <<3, 2>>)>>)
\* one candidate holds every first preference
Plumper == Profile(2, Beyond(3), <<Line(2, <<1>>), Line(3, <<1>>)>>)
\* ballots of multiplicity above one sharing a first preference
SharedFirst ==
    Profile(2, Beyond(3), <<Line(1, <<2>>), Line(2, <<2, 3>>), Line(2, <<2, 1, 3>>)>>)
\* the count goes on after the only candidate of a ballot is defeated
LoneThird == Profile(1, Beyond(3), <<Line(2, <<1>>), Line(2, <<2>>), Line(1, <<3>>)>>)
\* the two lowest candidates are sure losers and one of them passes a ballot on
BatchPair ==
    Profile(1, Beyond(4), <<Line(3, <<1>>), Line(2, <<2>>), Line(1, <<3, 2>>)>>)
ScenarioProfiles == {CastorPollux, ThreeWay, Plumper, SharedFirst, LoneThird, BatchPair}

\* an option that is not given, or None, where the option is a number
NoValue == -1
Opt(rule, arithmetic, precision, om, db) ==
    [rule |-> rule, variant |-> "unset", arithmetic |-> arithmetic,
     precision |-> precision, guard |-> NoValue, omega |-> om, defeat_batch |-> db]
\* <<arithmetic, precision, omega>>: the kernels a Meek count is run with
ArithChoices == {<<"integer", NoValue, NoValue>>, <<"fixed", 1, NoValue>>,
                 <<"fixed", 2, NoValue>>, <<"guarded", 1, NoValue>>,
                 <<"guarded", 2, NoValue>>,
                 <<"rational", NoValue, 1>>}
MeekOptions == {Opt(r, a[1], a[2], a[3], d) :
                   r \in {"meek", "warren"}, a \in ArithChoices, d \in {"unset", "none"}}
\* the kernels the whole family of profiles is counted with
FamilyOptions == {o \in MeekOptions : o.precision = 1}
WigmOptions == {Opt(r, "unset", NoValue, NoValue, "unset") :
                   r \in {"wigm-prf", "wigm-prf-batch"}}
Inputs == (FamilyProfiles \X (FamilyOptions \cup WigmOptions))
              \cup (ScenarioProfiles \X (MeekOptions \cup WigmOptions))

\* ---------------------------------------------------------- count driver
\* Droop.main: the default rule is meek
RuleName(o) == IF o.rule = "unset" THEN "meek" ELSE o.rule
\* droop.electionRule(rule): the Rule class that registered the name
RuleClass(o) ==
    IF RuleName(o) \in {"meek", "warren"} THEN "meek"
    ELSE IF RuleName(o) \in {"wigm-prf", "wigm-prf-batch"} THEN "wigm"
    ELSE "none"

\* a Rule.options that checks neither the variant nor defeat_batch
MeekRuleOptionsUnchecked(o) ==
    [raised |-> FALSE, options |-> o,
     warren |-> (o.rule = "warren" \/ o.variant = "warren"), omega |-> o.omega,
     defeatBatch |-> IF o.defeat_batch = "unset" THEN defeatBatch ELSE o.defeat_batch]

\* meek.Rule.options: the class attributes and options it leaves, and whether
\* it raised UsageError (the assignments before the raise are kept)
MeekRuleOptions(o) ==
    LET variant == IF o.rule = "warren" THEN "warren"
                   ELSE IF o.variant = "unset" THEN "meek" ELSE o.variant
        badVariant == variant \notin {"meek", "warren"}
        db  == IF o.defeat_batch = "unset" THEN defeatBatch ELSE o.defeat_batch
        o2  == IF o.arithmetic = "unset" THEN [o EXCEPT !.arithmetic = "guarded"] ELSE o
    IN  IF badVariant
        THEN [raised |-> TRUE, options |-> o, warren |-> warren, omega |-> omega,
              defeatBatch |-> defeatBatch]
        ELSE [raised |-> db \notin {"none", "safe"}, options |-> o2,
              warren |-> (variant = "warren"), omega |-> o.omega, defeatBatch |-> db]

EndsWithBatch(name) == name = "wigm-prf-batch"
\* a Rule.options that leaves the caller's arithmetic and precision
WigmRuleOptionsAsGiven(o) ==
    LET name == IF o.rule = "unset" THEN wigmName ELSE o.rule
    IN  [name |-> name, defeatBatch |-> EndsWithBatch(name), options |-> o]

\* wigm_prf.Rule.options
WigmRuleOptions(o) ==
    LET name == IF o.rule = "unset" THEN wigmName ELSE o.rule
    IN  [name |-> name, defeatBatch |-> EndsWithBatch(name),
         options |-> [o EXCEPT !.arithmetic = "fixed", !.precision = 4]]

\* the arithmetic kernel the options select
MakeArith(o) ==
    IF o.arithmetic = "rational" THEN [name |-> "rational", precision |-> 0, guard |-> 0]
    ELSE IF o.arithmetic = "integer" THEN [name |-> "fixed", precision |-> 0, guard |-> 0]
    ELSE IF o.arithmetic = "guarded"
    THEN [name |-> "guarded", precision |-> o.precision,
          guard |-> IF o.guard = NoValue THEN o.precision ELSE o.guard]
    ELSE [name |-> "fixed", precision |-> o.precision, guard |-> 0]

ZeroOf(a) == IF a.name = "rational" THEN <<0, 1>> ELSE 0
OneOf(a)  == IF a.name = "rational" THEN <<1, 1>> ELSE Pow10(a.precision + a.guard)

\* state of a process before its first Election is built
NoArith == [name |-> "fixed", precision |-> 0, guard |-> 0]
Blank(in) ==
    /\ nSeats = in[1].nSeats
    /\ withdrawn = in[1].withdrawn
    /\ ballots = in[1].ballots
    /\ options = in[2]
    /\ given = in[2]
    /\ arith = NoArith
    /\ status = [c \in Cands |-> IF c \in in[1].withdrawn THEN "withdrawn" ELSE "hopeful"]
    /\ vote = [c \in Cands |-> 0]
    /\ kf = [c \in Cands |-> 0]
    /\ quota = 0 /\ votes = 0 /\ surplus = 0
    /\ residual = 0 /\ lastsurplus = 0
    /\ iStatus = "none" /\ batch = <<>> /\ round = 0
    /\ weight = [b \in DOMAIN in[1].ballots |-> 0]
    /\ bresidual = [b \in DOMAIN in[1].ballots |-> 0]
    /\ cursor = [b \in DOMAIN in[1].ballots |-> 1]
    /\ log = <<>>
    /\ pc = "start"

\* a fresh process: the rule classes as their class bodies define them
\* (meek.py lines 32-33, wigm_prf.py lines 103-105)
FreshClasses ==
    /\ warren = FALSE /\ omega = NoValue /\ omegaV = 0
    /\ defeatBatch = "safe"
    /\ wigmName = "wigm-prf" /\ wigmBatch = FALSE

Init ==
    /\ \E in \in Inputs : Blank(in)
    /\ FreshClasses
    /\ nCounts = 1 /\ outcomes = <<>>

\* Election(Rule, profile, options): Rule.options, then the kernel and the
\* candidate and ballot state
NewElection ==
    /\ pc = "start"
    /\ RuleClass(options) \in {"meek", "wigm"}
    /\ IF RuleClass(options) = "meek"
       THEN LET r == MeekRuleOptions(options)
            IN  /\ options' = r.options
                /\ warren' = r.warren /\ omega' = r.omega /\ defeatBatch' = r.defeatBatch
                /\ UNCHANGED <<omegaV, wigmName, wigmBatch>>
                /\ pc' = IF r.raised THEN "usage_error" ELSE "count"
                /\ arith' = IF r.raised THEN arith ELSE MakeArith(r.options)
       ELSE LET r == WigmRuleOptions(options)
            IN  /\ options' = r.options
                /\ wigmName' = r.name /\ wigmBatch' = r.defeatBatch
                /\ UNCHANGED <<warren, omega, omegaV, defeatBatch>>
                /\ pc' = "count"
                /\ arith' = MakeArith(r.options)
    /\ vote' = [c \in Cands |-> ZeroOf(arith')]
    /\ kf' = [c \in Cands |-> ZeroOf(arith')]
    /\ weight' = [b \in DOMAIN ballots |-> OneOf(arith')]
    /\ bresidual' = [b \in DOMAIN ballots |-> ZeroOf(arith')]
    /\ cursor' = [b \in DOMAIN ballots |-> TopPos(ballots[b].ranking, 1)]
    /\ quota' = ZeroOf(arith') /\ votes' = ZeroOf(arith') /\ surplus' = ZeroOf(arith')
    /\ residual' = ZeroOf(arith') /\ lastsurplus' = ZeroOf(arith')
    /\ UNCHANGED <<profileVars, status, iStatus, batch, round, log, procVars>>

\* -------------------------------------------------------- batch defeat
\* first loop of batchDefeat: the sorted candidates cut into groups of
\* candidates whose votes are within the surplus of the group's first vote
RECURSIVE Grouping(_, _, _, _, _, _, _)
Grouping(sc, i, groups, group, v, sp, vt) ==
    LET closed == IF group # <<>> THEN Append(groups, group) ELSE groups
    IN  IF i > Len(sc) THEN closed
        ELSE IF VGe(VAdd(v, sp), vt[sc[i]])
        THEN Grouping(sc, i + 1, groups, Append(group, sc[i]), v, sp, vt)
        ELSE Grouping(sc, i + 1, closed, <<sc[i]>>, vt[sc[i]], sp, vt)

\* the scan taking a group for sure losers when the batch and the surplus
\* do not exceed the next group's vote
RECURSIVE ScanGroupsLe(_, _, _, _, _, _, _, _)
ScanGroupsLe(groups, g, ncand, v, maxg, maxDefeat, sp, vt) ==
    IF g > Len(groups) - 1 THEN maxg
    ELSE LET n2 == ncand + Len(groups[g])
             v2 == VAdd(v, VSumSeq(groups[g], 1, vt))
         IN  IF n2 > maxDefeat THEN maxg
             ELSE ScanGroupsLe(groups, g + 1, n2, v2,
                               IF VLe(VAdd(v2, sp), vt[groups[g + 1][1]]) THEN g ELSE maxg,
                               maxDefeat, sp, vt)

\* second loop of batchDefeat: the last group g (0: none) such that groups
\* 1..g are sure losers; never the final group
RECURSIVE ScanGroups(_, _, _, _, _, _, _, _)
ScanGroups(groups, g, ncand, v, maxg, maxDefeat, sp, vt) ==
    IF g > Len(groups) - 1 THEN maxg
    ELSE LET n2 == ncand + Len(groups[g])
             v2 == VAdd(v, VSumSeq(groups[g], 1, vt))
         IN  IF n2 > maxDefeat THEN maxg
             ELSE ScanGroups(groups, g + 1, n2, v2,
                             IF VLt(VAdd(v2, sp), vt[groups[g + 1][1]]) THEN g ELSE maxg,
                             maxDefeat, sp, vt)

\* the groups through the one after group n
RECURSIVE ConcatThrough(_, _)
ConcatThrough(groups, n) ==
    IF n = 0 THEN <<>>
    ELSE IF n = 1 THEN groups[1] \o groups[2]
    ELSE ConcatThrough(groups, n - 1) \o groups[n + 1]

\* the groups up to group n
RECURSIVE Concat(_, _)
Concat(groups, n) == IF n = 0 THEN <<>> ELSE Concat(groups, n - 1) \o groups[n]

\* batchDefeat(surplus) on the hopeful set H with votes vt
BatchDefeat(H, vt, sp, seatsLeft) ==
    LET sortedGroups == Grouping(SortByVote(H, vt), 1, <<>>, <<>>, V0, sp, vt)
        maxg == ScanGroups(sortedGroups, 1, 0, V0, 0, Cardinality(H) - seatsLeft, sp, vt)
    IN  Concat(sortedGroups, maxg)

\* ------------------------------------------------------- Meek / Warren
CountComplete(st) ==
    Cardinality(Hopeful(st)) <= SeatsLeftToFill(st) \/ SeatsLeftToFill(st) <= 0

\* a quota test that takes a vote equal to the quota in every arithmetic
HasQuotaAtLeast(v, q) == VGe(v, q)

HasQuota(v, q) == IF Exact THEN VGt(v, q) ELSE VGe(v, q)

CalcQuota(vts) ==
    IF Exact THEN VDiv(vts, V(nSeats + 1), "down")
    ELSE VAdd(VDiv(vts, V(nSeats + 1), "down"), Epsilon)

\* round-0 first-preference counts: b.topCand.vote += V(b.multiplier)
RECURSIVE FirstPrefs(_, _)
FirstPrefs(i, vt) ==
    IF i > Len(ballots) THEN vt
    ELSE LET b == ballots[i]
             t == TopPos(b.ranking, 1)
         IN  FirstPrefs(i + 1,
                 IF t <= Len(b.ranking)
                 THEN [vt EXCEPT ![b.ranking[t]] = VAdd(@, V(b.multiplier))]
                 ELSE vt)

\* a default omega one digit past the digits the arithmetic keeps
DefaultOmegaPastDigits(a) ==
    IF a.name = "rational" THEN 10 ELSE a.precision + a.guard + 1

\* cls.omega when the options give none: 10 if rational, else precision * 2 // 3
DefaultOmega(a) ==
    IF a.name = "rational" THEN 10 ELSE (a.precision * 2) \div 3

MeekInit ==
    /\ pc = "count" /\ RuleClass(options) = "meek"
    /\ LET om == IF omega # NoValue /\ omega # 0 THEN omega ELSE DefaultOmega(arith)
       IN  /\ omega' = om
           /\ omegaV' = VDiv(V1, V(Pow10(om)), "down")
    /\ votes' = V(NBallots)
    /\ quota' = CalcQuota(V(NBallots))
    /\ kf' = [c \in Cands |-> IF status[c] = "hopeful" THEN V1 ELSE V0]
    /\ vote' = FirstPrefs(1, [c \in Cands |-> V0])
    /\ pc' = "loop"
    /\ UNCHANGED <<profileVars, options, arith, warren, defeatBatch, wigmName, wigmBatch,
                   status, surplus, residual, lastsurplus, iStatus, batch, round,
                   ballotVars, log, procVars>>

MeekNewRound ==
    /\ pc = "loop" /\ RuleClass(options) = "meek"
    /\ ~CountComplete(status)
    /\ round < MaxRounds
    /\ round' = round + 1
    /\ lastsurplus' = V(NBallots)
    /\ iStatus' = "none"
    /\ batch' = <<>>
    /\ pc' = "iterate"
    /\ UNCHANGED <<profileVars, options, arith, classVars, candVars, quota, votes,
                   surplus, residual, ballotVars, log, procVars>>

\* the Meek distribution of one ballot from rank i on (OpenSTV MeekSTV rule);
\* s = [weight, residual, vote]
RECURSIVE MeekRank(_, _, _, _)
MeekRank(b, i, s, kfv) ==
    IF i > Len(b.ranking) THEN s
    ELSE LET c  == b.ranking[i]
             kv == VMul(VTimes(s.weight, b.multiplier), kfv[c], "down")
             s2 == [weight   |-> VMul(s.weight, VSub(V1, kfv[c]), "down"),
                    residual |-> VSub(s.residual, kv),
                    vote     |-> [s.vote EXCEPT ![c] = VAdd(@, kv)]]
         IN  IF VLe(s2.weight, V0) THEN s2 ELSE MeekRank(b, i + 1, s2, kfv)

\* the Warren distribution of one ballot from rank i on
RECURSIVE WarrenRank(_, _, _, _)
WarrenRank(b, i, s, kfv) ==
    IF i > Len(b.ranking) THEN s
    ELSE LET c    == b.ranking[i]
             keep == IF VLt(kfv[c], s.residual) THEN kfv[c] ELSE s.residual
             s2 == [weight   |-> VSub(s.weight, keep),
                    residual |-> VSub(s.residual, VTimes(keep, b.multiplier)),
                    vote     |-> [s.vote EXCEPT ![c] = VAdd(@, VTimes(keep, b.multiplier))]]
         IN  IF VLe(s2.weight, V0) THEN s2 ELSE WarrenRank(b, i + 1, s2, kfv)

\* a pass that starts each ballot's residual at its weight, not its multiplicity
RECURSIVE DistributeUnitResidual(_, _, _)
DistributeUnitResidual(i, acc, kfv) ==
    IF i > Len(ballots) THEN acc
    ELSE LET b  == ballots[i]
             s0 == [weight |-> V1, residual |-> V1, vote |-> acc.vote]
             s  == IF warren THEN WarrenRank(b, 1, s0, kfv) ELSE MeekRank(b, 1, s0, kfv)
         IN  DistributeUnitResidual(i + 1,
                 [vote      |-> s.vote,
                  weight    |-> [acc.weight EXCEPT ![i] = s.weight],
                  bresidual |-> [acc.bresidual EXCEPT ![i] = s.residual],
                  residual  |-> VAdd(acc.residual, s.residual)], kfv)

\* one pass over the ballots; acc = [vote, weight, bresidual, residual]
RECURSIVE Distribute(_, _, _)
Distribute(i, acc, kfv) ==
    IF i > Len(ballots) THEN acc
    ELSE LET b  == ballots[i]
             s0 == [weight |-> V1, residual |-> V(b.multiplier), vote |-> acc.vote]
             s  == IF warren THEN WarrenRank(b, 1, s0, kfv) ELSE MeekRank(b, 1, s0, kfv)
         IN  Distribute(i + 1,
                 [vote      |-> s.vote,
                  weight    |-> [acc.weight EXCEPT ![i] = s.weight],
                  bresidual |-> [acc.bresidual EXCEPT ![i] = s.residual],
                  residual  |-> VAdd(acc.residual, s.residual)], kfv)

\* D.8: the keep factor of an elected candidate after the update
UpdateKf(k, q, v) == VDiv(VMul(k, q, "up"), v, "up")

\* D.7 with the omega exit taken only when the surplus is below _omega
IterationStatusStrict(anyElected, sp, last, bd) ==
    IF anyElected THEN "elected"
    ELSE IF VLt(sp, omegaV) THEN "omega"
    ELSE IF VGe(sp, last) THEN "stable"
    ELSE IF bd # <<>> THEN "batch"
    ELSE "none"

\* D.7 without the stable-surplus exit
IterationStatusNoStable(anyElected, sp, last, bd) ==
    IF anyElected THEN "elected"
    ELSE IF VLe(sp, omegaV) THEN "omega"
    ELSE IF bd # <<>> THEN "batch"
    ELSE "none"

\* D.7: why the pass ends ("none": it does not)
IterationStatus(anyElected, sp, last, bd) ==
    IF anyElected THEN "elected"
    ELSE IF VLe(sp, omegaV) THEN "omega"
    ELSE IF VGe(sp, last) THEN "stable"
    ELSE IF bd # <<>> THEN "batch"
    ELSE "none"

\* the ballots distributed at the current keep factors, the votes of the
\* hopeful and elected candidates first reset to zero
Distributed ==
    Distribute(1, [vote      |-> [c \in Cands |-> IF c \in HopefulOrElected(status)
                                                  THEN V0 ELSE vote[c]],
                   weight    |-> weight,
                   bresidual |-> bresidual,
                   residual  |-> V0], kf)

\* the rest of the pass, as functions of the distribution d
PassVotes(d)   == VSum(d.vote, HopefulOrElected(status))
PassQuota(d)   == CalcQuota(PassVotes(d))
PassWinners(d) == {c \in Hopeful(status) : HasQuota(d.vote[c], PassQuota(d))}
PassStatus(d)  == [c \in Cands |-> IF c \in PassWinners(d) THEN "elected" ELSE status[c]]
PassSurplus(d) ==
    VSum([c \in Cands |-> VSub(d.vote[c], PassQuota(d))], Elected(PassStatus(d)))
PassBatch(d) ==
    IF defeatBatch = "none" THEN <<>>
    ELSE BatchDefeat(Hopeful(PassStatus(d)), d.vote, PassSurplus(d),
                     SeatsLeftToFill(PassStatus(d)))
PassExit(d) ==
    IterationStatus(PassWinners(d) # {}, PassSurplus(d), lastsurplus, PassBatch(d))

IteratePass(d) ==
    /\ vote' = d.vote
    /\ weight' = d.weight
    /\ bresidual' = d.bresidual
    /\ residual' = d.residual
    /\ votes' = PassVotes(d)
    /\ quota' = PassQuota(d)
    /\ status' = PassStatus(d)
    /\ surplus' = PassSurplus(d)
    /\ iStatus' = PassExit(d)
    /\ batch' = IF iStatus' = "batch" THEN PassBatch(d) ELSE <<>>
    /\ lastsurplus' = IF iStatus' = "none" THEN surplus' ELSE lastsurplus
    /\ kf' = IF iStatus' = "none"
             THEN [c \in Cands |-> IF status'[c] = "elected"
                                   THEN UpdateKf(kf[c], quota', vote'[c]) ELSE kf[c]]
             ELSE kf
    /\ log' = log \o LogAll(SortByOrder(Elected(status') \ Elected(status)), 1, round, "elect")
                  \o (IF iStatus' = "stable" THEN <<LogEntry(round, "log", 0)>> ELSE <<>>)
    /\ pc' = IF iStatus' = "elected" THEN "loop"
             ELSE IF iStatus' = "none" THEN "iterate" ELSE "defeat"

\* one pass of iterate()'s loop
MeekPass ==
    /\ pc = "iterate"
    /\ IteratePass(Distributed)
    /\ UNCHANGED <<profileVars, options, arith, classVars, round, cursor, procVars>>

\* a defeat that leaves the keep factor and the vote as they were
LeftAt(f, B) == f

\* c.kf = V0 and c.vote = V0 for each defeated candidate c of B
ZeroedAt(f, B) == [c \in Cands |-> IF c \in B THEN V0 ELSE f[c]]

\* D: defeat the batch of sure losers
MeekDefeatBatch ==
    /\ pc = "defeat" /\ iStatus = "batch"
    /\ LET B == {batch[i] : i \in DOMAIN batch}
       IN  /\ status' = [c \in Cands |-> IF c \in B THEN "defeated" ELSE status[c]]
           /\ kf' = ZeroedAt(kf, B)
           /\ vote' = ZeroedAt(vote, B)
    /\ log' = log \o LogAll(batch, 1, round, "defeat")
    /\ pc' = "loop"
    /\ UNCHANGED <<profileVars, options, arith, classVars, roundVars, ballotVars, procVars>>

\* a tie broken toward the last of the tied candidates
BreakTieLast(tied) == SortByOrder(tied)[Cardinality(tied)]

\* meek breakTie: the first of the tied candidates in ballot-file order
BreakTie(tied) == SortByOrder(tied)[1]

\* the hopefuls within the surplus of the lowest vote
LowCandidates(st, vt, sp) ==
    {c \in Hopeful(st) : VGe(VAdd(VMin(Hopeful(st), vt), sp), vt[c])}

\* D: defeat the lowest-vote candidate, breaking a tie if necessary
MeekDefeatLow ==
    /\ pc = "defeat" /\ iStatus \in {"omega", "stable"}
    /\ LET low == LowCandidates(status, vote, surplus)
       IN  IF low # {}
           THEN LET c == BreakTie(low)
                IN  /\ status' = [status EXCEPT ![c] = "defeated"]
                    /\ kf' = ZeroedAt(kf, {c})
                    /\ vote' = ZeroedAt(vote, {c})
                    /\ log' = log \o (IF Cardinality(low) > 1
                                      THEN <<LogEntry(round, "log", c)>> ELSE <<>>)
                                  \o <<LogEntry(round, "defeat", c)>>
           ELSE UNCHANGED <<candVars, log>>
    /\ pc' = "loop"
    /\ UNCHANGED <<profileVars, options, arith, classVars, roundVars, ballotVars, procVars>>

\* a finish that takes the remaining hopefuls out of every candidate set
FinishFromDrop(cs, i, st) ==
    [c \in Cands |-> IF \E k \in i..Len(cs) : cs[k] = c THEN "none" ELSE st[c]]

\* a finish that defeats every remaining hopeful, seats left or not
FinishFromDefeat(cs, i, st) ==
    [c \in Cands |-> IF \E k \in i..Len(cs) : cs[k] = c THEN "defeated" ELSE st[c]]

\* elect or defeat the remaining hopefuls, in ballot-file order
RECURSIVE FinishFrom(_, _, _)
FinishFrom(cs, i, st) ==
    IF i > Len(cs) THEN st
    ELSE FinishFrom(cs, i + 1,
             [st EXCEPT ![cs[i]] = IF Cardinality(Elected(st)) < nSeats
                                   THEN "elected" ELSE "defeated"])

MeekFinish ==
    /\ pc = "loop" /\ RuleClass(options) = "meek"
    /\ CountComplete(status)
    /\ LET hs == SortByOrder(Hopeful(status))
           st2 == FinishFrom(hs, 1, status)
           lost == Defeated(st2) \ Defeated(status)
       IN  /\ status' = st2
           /\ kf' = ZeroedAt(kf, lost)
           /\ vote' = ZeroedAt(vote, lost)
           /\ log' = log \o [i \in 1..Len(hs) |->
                               LogEntry(round, IF st2[hs[i]] = "elected" THEN "elect"
                                               ELSE "defeat", hs[i])]
    /\ pc' = "done"
    /\ UNCHANGED <<profileVars, options, arith, classVars, roundVars, ballotVars, procVars>>

\* ----------------------------------------------------------------- WIGM
\* A.1 without its "plus 0.0001"
WigmQuotaNoEpsilon == VDiv(V(NBallots), V(nSeats + 1), "down")

WigmQuota == VAdd(VDiv(V(NBallots), V(nSeats + 1), "down"), Epsilon)

\* A.4/A.5: b.topCand.vote += b.vote, ballot by ballot; a ballot that ranks
\* only withdrawn candidates has no topCand and the count fails there
RECURSIVE WigmFirstPrefs(_, _)
WigmFirstPrefs(i, vt) ==
    IF i > Len(ballots) THEN [vote |-> vt, failed |-> FALSE]
    ELSE LET b == ballots[i]
         IN  IF cursor[i] > Len(b.ranking) THEN [vote |-> vt, failed |-> TRUE]
             ELSE WigmFirstPrefs(i + 1,
                      [vt EXCEPT ![b.ranking[cursor[i]]] =
                                     VAdd(@, VTimes(weight[i], b.multiplier))])

WigmInit ==
    /\ pc = "count" /\ RuleClass(options) = "wigm"
    /\ quota' = WigmQuota
    /\ LET r == WigmFirstPrefs(1, vote)
       IN  /\ vote' = r.vote
           /\ pc' = IF r.failed THEN "failed" ELSE "loop"
    /\ UNCHANGED <<profileVars, options, arith, classVars, status, kf, votes, surplus,
                   residual, lastsurplus, iStatus, batch, round, ballotVars, log, procVars>>

\* the condition of count()'s while loop
WigmContinue(st) ==
    Cardinality(Hopeful(st)) > SeatsLeftToFill(st) /\ SeatsLeftToFill(st) > 0

\* byVote(reverse=True): highest vote first
RECURSIVE SortByVoteDesc(_, _)
SortByVoteDesc(S, vt) ==
    IF S = {} THEN <<>>
    ELSE LET c == CHOOSE x \in S : \A y \in S \ {x} :
                      RawLt(vt[y], vt[x]) \/ (~RawLt(vt[x], vt[y]) /\ x < y)
         IN  <<c>> \o SortByVoteDesc(S \ {c}, vt)

\* a quota test that leaves out a vote equal to the quota
WigmHasQuotaStrict(v, q) == VGt(v, q)

\* wigm_prf hasQuota(): candidate.vote >= E.quota
WigmHasQuota(v, q) == VGe(v, q)

\* B.1: newRound(), then every hopeful with a quota becomes pending
WigmPend ==
    /\ pc = "loop" /\ RuleClass(options) = "wigm"
    /\ WigmContinue(status)
    /\ round < MaxRounds
    /\ round' = round + 1
    /\ LET winners == {c \in Hopeful(status) : WigmHasQuota(vote[c], quota)}
       IN  /\ status' = [c \in Cands |-> IF c \in winners THEN "pending" ELSE status[c]]
           /\ log' = log \o LogAll(SortByVoteDesc(winners, vote), 1, round + 1, "pend")
    /\ pc' = "round"
    /\ UNCHANGED <<profileVars, options, arith, classVars, vote, kf, quota, votes, surplus,
                   residual, lastsurplus, iStatus, batch, ballotVars, procVars>>

\* the untransferred surplus batchDefeat() starts from
PendingSurplus(st, vt) == VSum([c \in Cands |-> VSub(vt[c], quota)], Pending(st))

\* sure losers found without the untransferred surplus of the pending
SureLosersNoSurplus(st, vt) ==
    BatchDefeat(Hopeful(st), vt, V0, SeatsLeftToFill(st))

\* wigm_prf batchDefeat(): the largest batch of sure losers
SureLosers(st, vt) ==
    BatchDefeat(Hopeful(st), vt, PendingSurplus(st, vt), SeatsLeftToFill(st))

\* a transfer that moves the cursor one rank on, whoever is ranked there
NextHopefulOnce(rk, i, st) == IF i > Len(rk) THEN i ELSE i + 1

\* transfer(ballot, CS): the cursor after advancing to the next hopeful
RECURSIVE NextHopeful(_, _, _)
NextHopeful(rk, i, st) ==
    IF i > Len(rk) THEN i
    ELSE IF st[rk[i]] = "hopeful" THEN i ELSE NextHopeful(rk, i + 1, st)

\* a surplus transfer that leaves the weight of the ballot as it was
Unweighted(w, m) == w

\* a surplus transfer whose new weight is rounded up
ReweightedUp(w, m) ==
    IF m = <<>> THEN w ELSE VDiv(VMul(w, m[1], "up"), m[2], "up")

\* b.weight = (b.weight * surplus) / high_candidate.vote, m = <<surplus, vote>>;
\* a defeat transfer (m empty) keeps the weight
Reweighted(w, m) ==
    IF m = <<>> THEN w ELSE VDiv(VMul(w, m[1], "down"), m[2], "down")

\* a transfer that moves the ballots on and credits nobody
RECURSIVE TransferFromUncredited(_, _, _, _, _)
TransferFromUncredited(i, c, acc, st, m) ==
    IF i > Len(ballots) THEN acc
    ELSE LET b   == ballots[i]
             at  == acc.cursor[i] <= Len(b.ranking) /\ b.ranking[acc.cursor[i]] = c
             w   == Reweighted(acc.weight[i], m)
             cur == IF w = V0 THEN acc.cursor[i]
                    ELSE NextHopeful(b.ranking, acc.cursor[i], st)
         IN  IF ~at THEN TransferFromUncredited(i + 1, c, acc, st, m)
             ELSE TransferFromUncredited(i + 1, c,
                      [vote   |-> acc.vote,
                       weight |-> [acc.weight EXCEPT ![i] = w],
                       cursor |-> [acc.cursor EXCEPT ![i] = cur]], st, m)

\* every ballot whose topRank is c is (reweighted by m[1]/m[2] when m is
\* not empty and) transferred; acc = [vote, weight, cursor]
RECURSIVE TransferFrom(_, _, _, _, _)
TransferFrom(i, c, acc, st, m) ==
    IF i > Len(ballots) THEN acc
    ELSE LET b   == ballots[i]
             at  == acc.cursor[i] <= Len(b.ranking) /\ b.ranking[acc.cursor[i]] = c
             w   == Reweighted(acc.weight[i], m)
             cur == IF w = V0 THEN acc.cursor[i]
                    ELSE NextHopeful(b.ranking, acc.cursor[i], st)
         IN  IF ~at THEN TransferFrom(i + 1, c, acc, st, m)
             ELSE TransferFrom(i + 1, c,
                      [vote   |-> IF w # V0 /\ cur <= Len(b.ranking)
                                  THEN [acc.vote EXCEPT ![b.ranking[cur]] =
                                            VAdd(@, VTimes(w, b.multiplier))]
                                  ELSE acc.vote,
                       weight |-> [acc.weight EXCEPT ![i] = w],
                       cursor |-> [acc.cursor EXCEPT ![i] = cur]], st, m)

\* the ballots of each defeated candidate of cs in turn, then its vote zeroed
RECURSIVE TransferDefeated(_, _, _, _)
TransferDefeated(cs, k, acc, st) ==
    IF k > Len(cs) THEN acc
    ELSE LET a == TransferFrom(1, cs[k], acc, st, <<>>)
         IN  TransferDefeated(cs, k + 1, [a EXCEPT !.vote[cs[k]] = V0], st)

\* B.2: defeat sure losers
WigmBatchDefeat ==
    /\ pc = "round"
    /\ wigmBatch /\ SureLosers(status, vote) # <<>>
    /\ LET losers == SureLosers(status, vote)
           L   == {losers[i] : i \in DOMAIN losers}
           st2 == [c \in Cands |-> IF c \in L THEN "defeated" ELSE status[c]]
           stop == Cardinality(Hopeful(st2)) <= SeatsLeftToFill(st2)
           a   == TransferDefeated(SortByOrder(L), 1,
                      [vote |-> vote, weight |-> weight, cursor |-> cursor], st2)
       IN  /\ status' = st2
           /\ vote' = IF stop THEN vote ELSE a.vote
           /\ weight' = IF stop THEN weight ELSE a.weight
           /\ cursor' = IF stop THEN cursor ELSE a.cursor
           /\ log' = log \o LogAll(SortByOrder(L), 1, round, "defeat")
                         \o (IF stop THEN <<>> ELSE LogAll(SortByOrder(L), 1, round, "transfer"))
           /\ pc' = IF stop THEN "finish" ELSE "loop"
    /\ UNCHANGED <<profileVars, options, arith, classVars, kf, roundVars, bresidual, procVars>>

\* max(c.vote for c in CS.pending)
RECURSIVE VMaxFrom(_, _, _, _)
VMaxFrom(cs, i, vt, m) ==
    IF i > Len(cs) THEN m
    ELSE VMaxFrom(cs, i + 1, vt, IF VGt(vt[cs[i]], m) THEN vt[cs[i]] ELSE m)
VMax(S, vt) == LET cs == SortByOrder(S) IN VMaxFrom(cs, 2, vt, vt[cs[1]])

\* B.3: transfer the highest surplus
WigmTransferSurplus ==
    /\ pc = "round"
    /\ ~(wigmBatch /\ SureLosers(status, vote) # <<>>)
    /\ Pending(status) # {}
    /\ LET high == {c \in Pending(status) : VEq(vote[c], VMax(Pending(status), vote))}
           c    == BreakTie(high)
           st2  == [status EXCEPT ![c] = "elected"]
           sp   == VSub(vote[c], quota)
           a    == TransferFrom(1, c, [vote |-> vote, weight |-> weight, cursor |-> cursor],
                                st2, <<sp, vote[c]>>)
       IN  /\ status' = st2
           /\ surplus' = sp
           /\ vote' = [a.vote EXCEPT ![c] = quota]
           /\ weight' = a.weight
           /\ cursor' = a.cursor
           /\ log' = log \o (IF Cardinality(high) > 1 THEN <<LogEntry(round, "tie", c)>> ELSE <<>>)
                         \o <<LogEntry(round, "elect", c), LogEntry(round, "transfer", c)>>
    /\ pc' = "loop"
    /\ UNCHANGED <<profileVars, options, arith, classVars, kf, quota, votes, residual,
                   lastsurplus, iStatus, batch, round, bresidual, procVars>>

\* B.4: defeat the lowest candidate
WigmDefeatLow ==
    /\ pc = "round"
    /\ ~(wigmBatch /\ SureLosers(status, vote) # <<>>)
    /\ Pending(status) = {}
    /\ IF Hopeful(status) # {}
       THEN LET low == {c \in Hopeful(status) : VEq(vote[c], VMin(Hopeful(status), vote))}
                c   == BreakTie(low)
                st2 == [status EXCEPT ![c] = "defeated"]
                a   == TransferFrom(1, c, [vote |-> vote, weight |-> weight,
                                           cursor |-> cursor], st2, <<>>)
            IN  /\ status' = st2
                /\ vote' = [a.vote EXCEPT ![c] = V0]
                /\ weight' = a.weight
                /\ cursor' = a.cursor
                /\ log' = log \o (IF Cardinality(low) > 1
                                  THEN <<LogEntry(round, "tie", c)>> ELSE <<>>)
                              \o <<LogEntry(round, "defeat", c), LogEntry(round, "transfer", c)>>
       ELSE UNCHANGED <<status, vote, weight, cursor, log>>
    /\ pc' = "loop"
    /\ UNCHANGED <<profileVars, options, arith, classVars, kf, roundVars, bresidual, procVars>>

\* C: elect the pending, then elect or defeat the remaining hopefuls
WigmFinish ==
    /\ \/ pc = "finish"
       \/ pc = "loop" /\ RuleClass(options) = "wigm" /\ ~WigmContinue(status)
    /\ LET ps  == SortByOrder(Pending(status))
           st1 == [c \in Cands |-> IF status[c] = "pending" THEN "elected" ELSE status[c]]
           hs  == SortByOrder(Hopeful(status))
           st2 == FinishFrom(hs, 1, st1)
       IN  /\ status' = st2
           /\ log' = log \o LogAll(ps, 1, round, "elect")
                         \o [i \in 1..Len(hs) |->
                               LogEntry(round, IF st2[hs[i]] = "elected" THEN "elect"
                                               ELSE "defeat", hs[i])]
    /\ pc' = "done"
    /\ UNCHANGED <<profileVars, options, arith, classVars, vote, kf, roundVars, ballotVars,
                   procVars>>

Next ==
    \/ NewElection
    \/ MeekInit
    \/ MeekNewRound
    \/ MeekPass
    \/ MeekDefeatBatch
    \/ MeekDefeatLow
    \/ MeekFinish
    \/ WigmInit
    \/ WigmPend
    \/ WigmBatchDefeat
    \/ WigmTransferSurplus
    \/ WigmDefeatLow
    \/ WigmFinish

Spec == Init /\ [][Next]_vars

\* ------------------------------------------------- counts in one process
\* what a finished (or failed) count leaves for its caller
Outcome ==
    [nSeats |-> nSeats, withdrawn |-> withdrawn, ballots |-> ballots, given |-> given,
     pc |-> pc, status |-> status, vote |-> vote, kf |-> kf, quota |-> quota,
     round |-> round, log |-> log]

\* the counts a process runs one after another (Droop.countElection's loop,
\* the test suites): a few inputs, with and without defeat_batch
ProcProfiles == {CastorPollux, ThreeWay}
ProcOptions ==
    {Opt("meek", "guarded", 1, NoValue, d) : d \in {"unset", "none"}}
        \cup {Opt("wigm-prf", "unset", NoValue, NoValue, "unset"),
              Opt("wigm-prf-batch", "unset", NoValue, NoValue, "unset")}
ProcInputs == ProcProfiles \X ProcOptions

ProcInit ==
    /\ \E in \in ProcInputs : Blank(in)
    /\ FreshClasses
    /\ nCounts = 1 /\ outcomes = <<>>

\* the process builds its next Election: the rule classes keep their attributes
NextCount ==
    /\ pc \in {"done", "failed", "usage_error"}
    /\ nCounts < MaxCounts
    /\ nCounts' = nCounts + 1
    /\ outcomes' = Append(outcomes, Outcome)
    /\ \E in \in ProcInputs :
          /\ nSeats' = in[1].nSeats
          /\ withdrawn' = in[1].withdrawn
          /\ ballots' = in[1].ballots
          /\ options' = in[2]
          /\ given' = in[2]
          /\ status' = [c \in Cands |-> IF c \in in[1].withdrawn THEN "withdrawn"
                                        ELSE "hopeful"]
          /\ weight' = [b \in DOMAIN in[1].ballots |-> 0]
          /\ bresidual' = [b \in DOMAIN in[1].ballots |-> 0]
          /\ cursor' = [b \in DOMAIN in[1].ballots |-> 1]
    /\ arith' = NoArith
    /\ vote' = [c \in Cands |-> 0]
    /\ kf' = [c \in Cands |-> 0]
    /\ quota' = 0 /\ votes' = 0 /\ surplus' = 0
    /\ residual' = 0 /\ lastsurplus' = 0
    /\ iStatus' = "none" /\ batch' = <<>> /\ round' = 0
    /\ log' = <<>>
    /\ pc' = "start"
    /\ UNCHANGED classVars

ProcNext == Next \/ NextCount

ProcSpec == ProcInit /\ [][ProcNext]_vars

\* ==================================================================
\* Properties
\* ==================================================================
NonWithdrawn == Cands \ withdrawn
Min(a, b) == IF a < b THEN a ELSE b
\* the count in hand is of profile p
OnProfile(p) == nSeats = p.nSeats /\ withdrawn = p.withdrawn /\ ballots = p.ballots
\* a Meek or Warren count that has been initialized
InMeekCount == RuleClass(given) = "meek" /\ pc \in {"loop", "iterate", "defeat", "done"}

\* C1: when a count returns, the number of elected candidates is
\* min(S, number of non-withdrawn candidates).
C1_ElectedCount ==
    pc = "done" => Cardinality(Elected(status)) = Min(nSeats, Cardinality(NonWithdrawn))

\* C2: in every state of a count, |elected| + |pending| <= S.
C2_SeatsNeverOverfilled ==
    Cardinality(Elected(status)) + Cardinality(Pending(status)) <= nSeats

\* C3: the number of rounds opened by newRound() is at most the number of
\* non-withdrawn candidates, a Meek round that ends in a defeat step defeats a
\* candidate, and a WIGM round decreases |hopeful| + |pending|.
C3_RoundsBounded ==
    /\ [](round <= Cardinality(NonWithdrawn))
    /\ [][pc = "defeat" => Defeated(status') # Defeated(status)]_vars
    /\ [][pc = "round" /\ pc' = "loop" =>
            Cardinality(Hopeful(status')) + Cardinality(Pending(status'))
                < Cardinality(Hopeful(status)) + Cardinality(Pending(status))]_vars

\* the counts of the process so far, the count in hand included once it is over
CountsSoFar ==
    IF pc \in {"done", "failed", "usage_error"} THEN Append(outcomes, Outcome) ELSE outcomes
SameInput(a, b) ==
    /\ a.nSeats = b.nSeats /\ a.withdrawn = b.withdrawn
    /\ a.ballots = b.ballots /\ a.given = b.given

\* C4: two counts with identical profile and identical options end with
\* identical quota, statuses, votes, keep factors, round number and log.
C4_SameInputSameOutcome ==
    \A i, j \in DOMAIN CountsSoFar :
        SameInput(CountsSoFar[i], CountsSoFar[j]) => CountsSoFar[i] = CountsSoFar[j]

\* C5: no data is shared across counts: the batch-defeat setting a Meek count
\* runs with is the one its own options give (safe when they give none),
\* whatever the options of the earlier counts of the process were.
C5_OwnOptionsOnly ==
    InMeekCount =>
        defeatBatch = IF given.defeat_batch = "unset" THEN "safe" ELSE given.defeat_batch

\* the Castor, Pollux, Helen profile counted by Meek with guarded arithmetic
\* and no defeat_batch option
CastorPolluxMeek ==
    /\ OnProfile(CastorPollux)
    /\ given.rule = "meek" /\ given.arithmetic = "guarded" /\ given.defeat_batch = "unset"

\* C6 (as the code has it): S=2, 4x[Castor,Pollux], 2x[Helen], rule=meek,
\* arithmetic=guarded: the elected set is {Castor, Helen}.
C6_ElectsCastorHelen ==
    CastorPolluxMeek /\ pc = "done" => Elected(status) = {Castor, Helen}

\* C6 witness: the count ends in round 2 with Castor and Helen elected and
\* Pollux defeated.
C6_Witness ==
    /\ CastorPolluxMeek /\ pc = "done" /\ round = 2
    /\ Elected(status) = {Castor, Helen} /\ status[Pollux] = "defeated"

\* C6 (as the spec has it): the elected set is {Castor, Pollux}.
C6_ElectsCastorPollux ==
    CastorPolluxMeek /\ pc = "done" => Elected(status) = {Castor, Pollux}

\* the Castor, Pollux, Helen profile counted by wigm-prf
CastorPolluxWigm == OnProfile(CastorPollux) /\ given.rule = "wigm-prf"
\* the surplus C7 names: 4 - (6/3 + epsilon) = 2 - epsilon
TwoLessEpsilon == VSub(V(2), Epsilon)

\* C7 (as the code has it): counted with rule=wigm-prf (fixed, precision 4),
\* round 1 makes Castor pending with surplus 2 - epsilon, the transfer gives
\* each Castor ballot the weight (1 * surplus)/4 truncated, and the final
\* elected set is {Castor, Helen}.
C7_WigmElectsCastorHelen ==
    CastorPolluxWigm /\ pc # "start" =>
        /\ arith = [name |-> "fixed", precision |-> 4, guard |-> 0]
        /\ pc = "round" /\ round = 1 =>
              Pending(status) = {Castor} /\ VSub(vote[Castor], quota) = TwoLessEpsilon
        /\ pc = "loop" /\ round = 1 =>
              /\ status[Castor] = "elected" /\ surplus = TwoLessEpsilon
              /\ weight[1] = VDiv(VMul(V1, TwoLessEpsilon, "down"), V(4), "down")
        /\ pc = "done" => Elected(status) = {Castor, Helen}

\* C7 witness: the count is over, the first ballot carries the truncated
\* transfer weight, Pollux is defeated with Castor and Helen elected.
C7_Witness ==
    /\ CastorPolluxWigm /\ pc = "done"
    /\ weight[1] = VDiv(VMul(V1, TwoLessEpsilon, "down"), V(4), "down")
    /\ weight[1] < V1 \div 2
    /\ Elected(status) = {Castor, Helen} /\ status[Pollux] = "defeated"

\* C7 (as the spec has it): the same round 1, and the final elected set is
\* {Castor, Pollux}.
C7_WigmElectsCastorPollux ==
    CastorPolluxWigm /\ pc # "start" =>
        /\ pc = "round" /\ round = 1 =>
              Pending(status) = {Castor} /\ VSub(vote[Castor], quota) = TwoLessEpsilon
        /\ pc = "loop" /\ round = 1 =>
              weight[1] = VDiv(VMul(V1, TwoLessEpsilon, "down"), V(4), "down")
        /\ pc = "done" => Elected(status) = {Castor, Pollux}

\* the A, B, C profile counted by Meek (any kernel, any defeat_batch)
ThreeWayMeek == OnProfile(ThreeWay) /\ given.rule = "meek"

\* C8 (as the code has it): S=1, 3x[A,B], 2x[B,C], 2x[C,B], rule=meek:
\* candidate C (3) is the elected candidate.
C8_ElectsC ==
    ThreeWayMeek /\ pc = "done" => Elected(status) = {3}

\* C8 witness: B was defeated in round 1, C elected in round 2, A defeated
\* at the end.
C8_Witness ==
    /\ ThreeWayMeek /\ pc = "done" /\ round = 2
    /\ LogEntry(1, "defeat", 2) \in {log[i] : i \in DOMAIN log}
    /\ LogEntry(2, "elect", 3) \in {log[i] : i \in DOMAIN log}
    /\ status[1] = "defeated"

\* C8 (as the spec has it): candidate A (1) is the elected candidate.
C8_ElectsA ==
    ThreeWayMeek /\ pc = "done" => Elected(status) = {1}

\* sum of the votes vt over the candidates plus the residual res, less N
ConservationError(vt, res) == VSub(VAdd(VSum(vt, Cands), res), V(NBallots))

\* C9 (as the code has it): in a Meek or Warren count, at the end of every
\* distribution pass (before any defeat of the round) the sum of c.vote over
\* the candidates plus the round's residual equals N, in every arithmetic.
C9_ConservedAfterPass ==
    [][pc = "iterate" => ConservationError(vote', residual') = V0]_vars

\* C9 witness: a pass has ended its round for a defeat, leaving a residual
\* and an elected candidate that keeps part of its votes.
C9_Witness ==
    /\ InMeekCount /\ pc = "defeat"
    /\ residual # V0 /\ ConservationError(vote, residual) = V0
    /\ \E c \in Elected(status) : kf[c] # V1

\* C9 (as the spec has it): in every round of a Meek count, once a pass has
\* ended the iteration and after every later transition (a defeat included),
\* the sum of c.vote plus the residual is N in rational arithmetic and within
\* |ballots| * epsilon of N in fixed or guarded arithmetic.
C9_ConservedAlways ==
    InMeekCount /\ round >= 1 /\ pc # "iterate" =>
        IF Exact THEN ConservationError(vote, residual) = V0
        ELSE Abs(ConservationError(vote, residual)) <= Len(ballots) * Epsilon

\* C10: in every update of the keep factors, each keep factor stays within
\* [V0, V1], the keep factor of a candidate that remains elected does not
\* increase, and a keep factor is changed only when the candidate's vote is
\* at least the quota.
C10_KeepFactors ==
    [][pc = "iterate" =>
          \A c \in Cands :
              /\ VLe(V0, kf'[c]) /\ VLe(kf'[c], V1)
              /\ status[c] = "elected" /\ status'[c] = "elected" => VLe(kf'[c], kf[c])
              /\ kf'[c] # kf[c] => VGe(vote'[c], quota')]_vars

\* a WIGM count that has been initialized
InWigmCount == RuleClass(given) = "wigm" /\ pc \in {"loop", "round", "finish", "done"}
\* Ballot.exhausted: the cursor has passed the last rank or the weight is zero
Exhausted(b, w, cur) == cur[b] > Len(ballots[b].ranking) \/ w[b] = V0
\* every ballot that is not exhausted is topped at a hopeful or pending candidate
TopsLive(st, w, cur) ==
    \A b \in DOMAIN ballots :
        ~Exhausted(b, w, cur) => st[ballots[b].ranking[cur[b]]] \in {"hopeful", "pending"}

HighCandidates(st, vt) == {c \in Pending(st) : VEq(vt[c], VMax(Pending(st), vt))}
\* the hopefuls tied for the lowest vote (wigm_prf.py 372-373)
WigmLowCandidates(st, vt) == {c \in Hopeful(st) : VEq(vt[c], VMin(Hopeful(st), vt))}
\* the step picks exactly one candidate of the tied set, and no candidate of
\* the tied set with a vote equal to the chosen one's is earlier in ballot order
PicksEarliest(tied, picked, vt) ==
    /\ Cardinality(picked) = 1
    /\ picked \subseteq tied
    /\ \A d \in picked, c \in tied : VEq(vt[c], vt[d]) => d <= c

\* C12: at every tie-break point (Meek low defeat, WIGM surplus transfer,
\* WIGM low defeat) with a non-empty tied set, exactly one candidate is
\* chosen, and no tied candidate of equal vote is earlier in ballot order.
C12_TieByBallotOrder ==
    [][/\ (MeekDefeatLow /\ LowCandidates(status, vote, surplus) # {} =>
              PicksEarliest(LowCandidates(status, vote, surplus),
                            Defeated(status') \ Defeated(status), vote))
       /\ (WigmDefeatLow /\ Hopeful(status) # {} =>
              PicksEarliest(WigmLowCandidates(status, vote),
                            Defeated(status') \ Defeated(status), vote))
       /\ (WigmTransferSurplus =>
              PicksEarliest(HighCandidates(status, vote),
                            Elected(status') \ Elected(status), vote))]_vars

\* C12 witness: a Meek count has broken a tie for a defeat: the tied
\* candidate defeated is earlier in ballot order than a hopeful that remains.
C12_Witness ==
    /\ InMeekCount /\ pc = "loop" /\ Len(log) >= 2
    /\ log[Len(log)].kind = "defeat"
    /\ log[Len(log) - 1].kind = "log" /\ log[Len(log) - 1].cand = log[Len(log)].cand
    /\ \E c \in Hopeful(status) : c > log[Len(log)].cand

C14_IterationTerminates ==
    [][MeekPass /\ pc' = "iterate" =>
          /\ VLt(surplus', lastsurplus) /\ RawLt(surplus', lastsurplus)
          /\ VGt(surplus', omegaV) /\ VGe(omegaV, V0)
          /\ lastsurplus' = surplus']_vars

\* C14 witness: an iteration has ended on the stable exit after a pass that
\* continued it: the surplus stopped decreasing above _omega.
C14_Witness ==
    /\ InMeekCount /\ pc = "defeat" /\ iStatus = "stable"
    /\ VGt(surplus, omegaV) /\ lastsurplus # V(NBallots)

\* ------------------------------------------- batchDefeat called on its own
\* batchDefeat as a function of its inputs: any hopeful set, any votes,
\* any surplus >= 0 and any number of seats left, in whole votes
BatchInit ==
    /\ nSeats \in 1..NCand
    /\ withdrawn = {}
    /\ ballots = <<>>
    /\ given = Opt("unset", "fixed", 0, NoValue, "unset")
    /\ options = given
    /\ arith = [name |-> "fixed", precision |-> 0, guard |-> 0]
    /\ FreshClasses
    /\ status \in [Cands -> {"hopeful", "pending"}]
    /\ vote \in [Cands -> 0..MaxVote]
    /\ quota \in 0..MaxVote
    /\ \A c \in Cands : status[c] = "pending" => vote[c] >= quota
    /\ kf = [c \in Cands |-> 0]
    /\ votes = 0 /\ surplus = 0 /\ residual = 0 /\ lastsurplus = 0
    /\ iStatus = "none" /\ batch = <<>> /\ round = 1
    /\ weight = <<>> /\ bresidual = <<>> /\ cursor = <<>>
    /\ log = <<>>
    /\ pc = "batchDefeat"
    /\ nCounts = 1 /\ outcomes = <<>>

\* meek.py batchDefeat(surplus), defeat_batch=safe
MeekBatchCall ==
    /\ pc = "batchDefeat"
    /\ \E sp \in 0..MaxVote :
          /\ surplus' = V(sp)
          /\ batch' = BatchDefeat(Hopeful(status), vote, V(sp), SeatsLeftToFill(status))
    /\ pc' = "batched"
    /\ UNCHANGED <<profileVars, options, arith, classVars, candVars, quota, votes, residual,
                   lastsurplus, iStatus, round, ballotVars, log, procVars>>

\* wigm_prf.py batchDefeat(): the surplus is that of the pending candidates
WigmBatchCall ==
    /\ pc = "batchDefeat"
    /\ surplus' = PendingSurplus(status, vote)
    /\ batch' = SureLosers(status, vote)
    /\ pc' = "batched"
    /\ UNCHANGED <<profileVars, options, arith, classVars, candVars, quota, votes, residual,
                   lastsurplus, iStatus, round, ballotVars, log, procVars>>

BatchNext == MeekBatchCall \/ WigmBatchCall

BatchSpec == BatchInit /\ [][BatchNext]_vars

\* the non-empty sets B of hopefuls H that (a) leave enough hopefuls for the
\* seats left, (b) hold every hopeful with a vote equal to or below a
\* member's, and (c) with the surplus total less than the lowest vote of the
\* hopefuls left out, of which there is at least one
SafeBatches(H, vt, sp, seatsLeft) ==
    {B \in SUBSET H :
        /\ B # {} /\ B # H
        /\ Cardinality(H) - Cardinality(B) >= seatsLeft
        /\ \A b \in B, h \in H : VLe(vt[h], vt[b]) => h \in B
        /\ \A h \in H \ B : VLt(VAdd(VSum(vt, B), sp), vt[h])}

HalfScale == Pow10(4) \div 2

\* 1 holds HalfScale + 1 first preferences, x of them ranking 2 next;
\* 2 holds HalfScale; 3 holds a few less; 4 holds d
LargeProfiles ==
    {Profile(2, {}, <<Line(HalfScale + 1 - x, <<1>>), Line(x, <<1, 2>>),
                      Line(HalfScale, <<2>>), Line(HalfScale - 1 - e, rc),
                      Line(d, <<4, 3>>)>>) :
        x \in 1..2, e \in 0..1, rc \in {<<3>>, <<3, 2>>, <<3, 4>>}, d \in 1..2}

LargeInit ==
    /\ \E in \in LargeProfiles \X WigmOptions : Blank(in)
    /\ FreshClasses
    /\ nCounts = 1 /\ outcomes = <<>>

\* calcQuota() of such a count: N / (S + 1) truncated at the scale, plus
\* epsilon; the quotient and the remainder are divided separately (the same
\* truncated value, without the product N * scale * scale)
LargeQuota ==
    (NBallots \div (nSeats + 1)) * Scale
        + ((NBallots % (nSeats + 1)) * Scale) \div (nSeats + 1) + Epsilon

\* A.1-A.5 of such a count
LargeWigmInit ==
    /\ pc = "count" /\ RuleClass(options) = "wigm"
    /\ quota' = LargeQuota
    /\ LET r == WigmFirstPrefs(1, vote)
       IN  /\ vote' = r.vote
           /\ pc' = IF r.failed THEN "failed" ELSE "loop"
    /\ UNCHANGED <<profileVars, options, arith, classVars, status, kf, votes, surplus,
                   residual, lastsurplus, iStatus, batch, round, ballotVars, log, procVars>>

LargeNext ==
    \/ NewElection
    \/ LargeWigmInit
    \/ WigmPend
    \/ WigmBatchDefeat
    \/ WigmTransferSurplus
    \/ WigmDefeatLow
    \/ WigmFinish

LargeSpec == LargeInit /\ [][LargeNext]_vars

\* the ballots whose topRank is c
ToppedAt(c, cur) ==
    {b \in DOMAIN ballots : cur[b] <= Len(ballots[b].ranking)
                               /\ ballots[b].ranking[cur[b]] = c}

\* the candidate B.3 elects in this step, when its vote equals the quota
ExactTransferred(st, st2, vt) == {c \in Elected(st2) \ Elected(st) : vt[c] = quota}

\* C17 (amended): in a WIGM count a hopeful whose vote equals the quota
\* exactly is set to pending by B.1 of that round; when B.3 transfers its
\* surplus the surplus is zero, the candidate moves from pending to elected,
\* every ballot topped at it gets weight V0 and is exhausted, and no
\* candidate's vote changes in that step.
C17_ExactQuotaPendsAndTransfers ==
    [][/\ WigmPend =>
            \A c \in Hopeful(status) : vote[c] = quota => status'[c] = "pending"
       /\ WigmTransferSurplus =>
            \A c \in ExactTransferred(status, status', vote) :
                /\ status[c] = "pending"
                /\ surplus' = V0
                /\ \A b \in ToppedAt(c, cursor) :
                      weight'[b] = V0 /\ Exhausted(b, weight', cursor')
                /\ vote' = vote]_vars

\* C17 witness: a candidate that was pended with its vote equal to the quota
\* has had its zero surplus transferred, and a ballot of weight one that was
\* topped at it now has weight zero.
C17_Witness ==
    /\ InWigmCount /\ pc = "loop" /\ round >= 2
    /\ Len(log) >= 1 /\ log[Len(log)].kind = "transfer"
    /\ LET c == log[Len(log)].cand
       IN  /\ status[c] = "elected" /\ vote[c] = quota /\ surplus = V0
           /\ \E i \in DOMAIN log : log[i].kind = "pend" /\ log[i].cand = c
           /\ \E b \in ToppedAt(c, cursor) : weight[b] = V0
           /\ \E d \in Hopeful(status) : VGt(vote[d], V0)

\* C17 as stated: the zero surplus is transferred in a later round than the
\* one that set the candidate pending.
C17_TransferInLaterRound ==
    [][WigmTransferSurplus =>
          \A c \in ExactTransferred(status, status', vote) :
              \E i \in DOMAIN log :
                  log[i].kind = "pend" /\ log[i].cand = c /\ log[i].n < round]_vars

\* there are seats for every candidate that is not withdrawn
SeatsForAll == nSeats >= Cardinality(NonWithdrawn)

\* C18: if S is at least the number of non-withdrawn candidates, a Meek or
\* WIGM count opens no round after round 0, defeats nobody, keeps every
\* non-withdrawn candidate hopeful until finalization, and finalization
\* elects every one of them.
C18_ElectAllImmediately ==
    SeatsForAll =>
        /\ round = 0
        /\ Defeated(status) = {}
        /\ pc # "done" => Hopeful(status) = NonWithdrawn
        /\ pc = "done" =>
              /\ Elected(status) = NonWithdrawn
              /\ Len(log) = Cardinality(NonWithdrawn)
              /\ \A i \in DOMAIN log : log[i].kind = "elect" /\ log[i].n = 0

\* C18 witness: a count with a withdrawn candidate and more seats than the
\* others need has returned; a candidate without a vote is among the elected.
C18_Witness ==
    /\ pc = "done" /\ SeatsForAll
    /\ withdrawn # {} /\ nSeats > Cardinality(NonWithdrawn)
    /\ Elected(status) = NonWithdrawn
    /\ \E c \in Elected(status) : vote[c] = V0
    /\ \E c \in Elected(status) : VGt(vote[c], V0)

\* topCand of line b: the first candidate of its ranking that is not
\* withdrawn, 0 when there is none
TopCand(b) ==
    LET live == {i \in DOMAIN ballots[b].ranking : ballots[b].ranking[i] \notin withdrawn}
    IN  IF live = {} THEN 0
        ELSE ballots[b].ranking[CHOOSE i \in live : \A j \in live : i <= j]

\* the number of ballots, from line i on, whose topCand is c
RECURSIVE TopCandTotal(_, _)
TopCandTotal(c, i) ==
    IF i > Len(ballots) THEN 0
    ELSE (IF TopCand(i) = c THEN ballots[i].multiplier ELSE 0) + TopCandTotal(c, i + 1)

\* C19: the round-0 vote of each hopeful is the sum of the multiplicities of
\* the ballots whose topCand it is, a ballot that starts with a withdrawn
\* candidate counting for the first non-withdrawn candidate of its ranking;
\* a withdrawn candidate never has a vote.
C19_WithdrawnSkipped ==
    /\ \A w \in withdrawn : vote[w] = V0
    /\ pc = "loop" /\ round = 0 =>
          \A c \in Hopeful(status) : vote[c] = V(TopCandTotal(c, 1))

\* C19 witness: round 0 of a count in which a ballot starts with the
\* withdrawn candidate; the candidate it ranks next holds its multiplicity.
C19_Witness ==
    /\ pc = "loop" /\ round = 0 /\ withdrawn # {}
    /\ \E b \in DOMAIN ballots :
          /\ ballots[b].ranking[1] \in withdrawn
          /\ Len(ballots[b].ranking) >= 2
          /\ status[ballots[b].ranking[2]] = "hopeful"
          /\ VGe(vote[ballots[b].ranking[2]], V(ballots[b].multiplier))
          /\ \E a \in DOMAIN ballots : a # b /\ TopCand(a) = TopCand(b)
                                         /\ ballots[a].ranking[1] \notin withdrawn

C21_KeepFactorByStatus ==
    InMeekCount =>
        \A c \in Cands :
            /\ (status[c] = "withdrawn") = (c \in withdrawn)
            /\ status[c] \in {"withdrawn", "defeated"} => kf[c] = V0
            /\ status[c] = "defeated" => vote[c] = V0
            /\ status[c] = "hopeful" => kf[c] = V1
            /\ kf[c] \notin {V0, V1} => status[c] = "elected"

\* C21 witness: a Meek count with a withdrawn candidate in which one
\* candidate is elected with a keep factor below V1, one that ballots rank
\* is defeated, and one is still hopeful.
C21_Witness ==
    /\ InMeekCount /\ pc = "loop" /\ withdrawn # {}
    /\ \E c \in Elected(status) : VGt(kf[c], V0) /\ VLt(kf[c], V1)
    /\ \E c \in Defeated(status) :
          \E b \in DOMAIN ballots, i \in 1..MaxRank :
              i <= Len(ballots[b].ranking) /\ ballots[b].ranking[i] = c
    /\ Hopeful(status) # {}

\* every candidate ranked on line b is defeated or withdrawn
AllOut(b, st) ==
    \A i \in DOMAIN ballots[b].ranking :
        st[ballots[b].ranking[i]] \in {"defeated", "withdrawn"}

EmptyOptions ==
    [rule |-> "unset", variant |-> "unset", arithmetic |-> "unset", precision |-> NoValue,
     guard |-> NoValue, omega |-> NoValue, defeat_batch |-> "unset", path |-> "unset"]
UsageOptions ==
    {EmptyOptions} \cup
    [rule : {"unset", "meek", "warren", "wigm-prf", "wigm-prf-batch", "borda"},
     variant : {"unset", "meek", "warren", "borda"},
     arithmetic : {"fixed"}, precision : {1}, guard : {NoValue}, omega : {NoValue},
     defeat_batch : {"unset", "none", "safe", "all"},
     path : {"unset", "file"}]

UsageInit ==
    /\ \E in \in {ThreeWay, LoneThird} \X UsageOptions : Blank(in)
    /\ FreshClasses
    /\ nCounts = 1 /\ outcomes = <<>>

\* main: "if not options", "if not path", "if not Rule"
MainRaises(o) == o = EmptyOptions \/ o.path = "unset" \/ RuleClass(o) = "none"

\* main raises UsageError before countElection is called
MainUsageError ==
    /\ pc = "start"
    /\ MainRaises(options)
    /\ pc' = "usage_error"
    /\ UNCHANGED <<profileVars, options, arith, classVars, candVars, roundVars, ballotVars,
                   log, procVars>>

\* countElection: Election(Rule, profile, options) and its count
MainCount == ~MainRaises(given) /\ Next

UsageNext == MainUsageError \/ MainCount

UsageSpec == UsageInit /\ [][UsageNext]_vars

\* options that name a Meek rule with a variant other than meek or warren,
\* or a defeat_batch other than none or safe
MeekInvalid(o) ==
    /\ RuleClass(o) = "meek"
    /\ o.variant \notin {"unset", "meek", "warren"}
          \/ o.defeat_batch \notin {"unset", "none", "safe"}

\* the same, the variant counting only when the rule is not warren
MeekInvalidRead(o) ==
    /\ RuleClass(o) = "meek"
    /\ (o.rule # "warren" /\ o.variant \notin {"unset", "meek", "warren"})
          \/ o.defeat_batch \notin {"unset", "none", "safe"}

\* no Election has been constructed and no round counted
NothingCounted ==
    /\ pc \in {"start", "usage_error"}
    /\ arith = NoArith
    /\ round = 0 /\ log = <<>>

\* C23 (amended): with empty options, no path, an unknown rule, or a Meek
\* rule given a defeat_batch other than none/safe or, unless the rule is
\* warren, a variant other than meek/warren, the run ends in UsageError: no
\* Election is constructed and no round is counted.
C23_InvalidOptionsRaise ==
    MainRaises(given) \/ MeekInvalidRead(given) => NothingCounted

\* C23 witness: Rule.options has raised UsageError for variant borda, with
\* a path and a known rule.
C23_Witness ==
    /\ pc = "usage_error" /\ ~MainRaises(given)
    /\ given.rule = "meek" /\ given.variant = "borda" /\ given.defeat_batch = "none"
    /\ NothingCounted

\* C23 as stated: a variant other than meek/warren raises whatever the rule.
C23_AnyVariantRaises ==
    MainRaises(given) \/ MeekInvalid(given) => NothingCounted

\* ------------------------------ wigm_prf Rule.options, call after call
\* the options a caller hands to wigm_prf Rule.options: any arithmetic,
\* precision and defeat_batch, the rule named or not
WigmCallOptions ==
    [rule : {"unset", "wigm-prf", "wigm-prf-batch"}, variant : {"unset"},
     arithmetic : {"unset", "fixed", "guarded", "rational", "integer"},
     precision : {NoValue, 1, 9}, guard : {NoValue}, omega : {NoValue},
     defeat_batch : {"unset", "none", "safe"}]

OptionsInit ==
    /\ \E o \in WigmCallOptions : Blank(<<Plumper, o>>)
    /\ FreshClasses
    /\ nCounts = 1 /\ outcomes = <<>>

\* one call of wigm_prf Rule.options(options)
WigmOptionsCall ==
    /\ pc = "start"
    /\ LET r == WigmRuleOptions(options)
       IN  /\ options' = r.options
           /\ wigmName' = r.name /\ wigmBatch' = r.defeatBatch
           /\ arith' = MakeArith(r.options)
    /\ pc' = "count"
    /\ UNCHANGED <<profileVars, warren, omega, omegaV, defeatBatch, candVars, roundVars,
                   ballotVars, log, procVars>>

\* the caller's next options, in the same process
NextOptions ==
    /\ pc = "count" /\ nCounts < MaxCounts
    /\ nCounts' = nCounts + 1
    /\ \E o \in WigmCallOptions : options' = o /\ given' = o
    /\ arith' = NoArith
    /\ pc' = "start"
    /\ UNCHANGED <<nSeats, withdrawn, ballots, classVars, candVars, roundVars, ballotVars,
                   log, outcomes>>

OptionsNext == WigmOptionsCall \/ NextOptions

OptionsSpec == OptionsInit /\ [][OptionsNext]_vars

\* C24: a wigm_prf Rule.options call leaves arithmetic = fixed and
\* precision = 4 whatever arithmetic, precision or defeat_batch it was given,
\* and when the call names the rule, batch defeat is enabled exactly when
\* that name ends in 'batch'.
C24_WigmForcesFixedFour ==
    pc = "count" =>
        /\ options.arithmetic = "fixed" /\ options.precision = 4
        /\ arith = [name |-> "fixed", precision |-> 4, guard |-> 0]
        /\ options.defeat_batch = given.defeat_batch
        /\ given.rule # "unset" =>
              wigmName = given.rule /\ wigmBatch = EndsWithBatch(given.rule)

\* C24 witness: a later call of the process, for wigm-prf with rational
\* arithmetic, precision 9 and defeat_batch=safe, has left fixed
\* arithmetic, precision 4 and batch defeat off.
C24_Witness ==
    /\ pc = "count" /\ nCounts >= 2
    /\ given.rule = "wigm-prf" /\ given.arithmetic = "rational"
    /\ given.precision = 9 /\ given.defeat_batch = "safe"
    /\ options.arithmetic = "fixed" /\ options.precision = 4 /\ ~wigmBatch

\* the round's log holds the "Stable state detected" entry
StableLogged(lg, n) == \E i \in DOMAIN lg : lg[i] = LogEntry(n, "log", 0)

\* C25: when a Meek round's iteration ends with Omega or Stable, exactly one
\* hopeful is defeated in that round: it is the first in ballot-file order of
\* the hopefuls within the surplus of the lowest hopeful vote, its kf and
\* vote are V0 afterwards, and a Stable ending has been logged as such.
C25_SingleDefeat ==
    [][MeekDefeatLow =>
          LET out == Defeated(status') \ Defeated(status)
              low == LowCandidates(status, vote, surplus)
          IN  /\ Cardinality(out) = 1
              /\ out \subseteq low
              /\ \A c \in out :
                    /\ \A d \in low : c <= d
                    /\ kf'[c] = V0 /\ vote'[c] = V0
              /\ Elected(status') = Elected(status)
              /\ iStatus = "stable" => StableLogged(log, round)
              /\ pc' = "loop"]_vars

\* the candidates the log records with action kind in round n
Logged(kind, n) == {log[i].cand : i \in {j \in DOMAIN log : log[j].n = n /\ log[j].kind = kind}}

\* C26: every Meek round before finalization either elects one or more
\* hopefuls and defeats nobody, or defeats one or more and elects nobody; a
\* pass that elects, elects every hopeful with the quota and updates no keep
\* factor.
C26_ElectOrDefeat ==
    /\ [](InMeekCount /\ pc = "loop" /\ round >= 1 =>
             \/ Logged("elect", round) # {} /\ Logged("defeat", round) = {}
             \/ Logged("elect", round) = {} /\ Logged("defeat", round) # {})
    /\ [][MeekPass /\ Elected(status') # Elected(status) =>
             /\ Elected(status') \ Elected(status)
                    = {c \in Hopeful(status) : HasQuota(vote'[c], quota')}
             /\ Defeated(status') = Defeated(status)
             /\ kf' = kf
             /\ pc' = "loop"]_vars

\* the log action kind that records a change to status s
KindOf(s) == IF s = "pending" THEN "pend" ELSE IF s = "elected" THEN "elect" ELSE "defeat"

\* C27: in both counters a status changes only from hopeful to pending,
\* elected or defeated, or from pending to elected, so that elected and
\* defeated are terminal; each change appends an entry for the candidate to
\* the log of the current round, and the log only grows.
C27_StatusDag ==
    [][/\ Len(log') >= Len(log) /\ SubSeq(log', 1, Len(log)) = log
       /\ \A c \in Cands :
             status'[c] # status[c] =>
                 /\ <<status[c], status'[c]>> \in
                        {<<"hopeful", "pending">>, <<"hopeful", "elected">>,
                         <<"hopeful", "defeated">>, <<"pending", "elected">>}
                 /\ \E i \in (Len(log) + 1)..Len(log') :
                       log'[i] = LogEntry(round', KindOf(status'[c]), c)]_vars

\* C27 witness: a WIGM count has returned in which one candidate went from
\* hopeful to pending to elected and another from hopeful to defeated, each
\* change in the log.
C27_Witness ==
    /\ InWigmCount /\ pc = "done"
    /\ \E c \in Elected(status), d \in Defeated(status) :
          \E i, j, k \in DOMAIN log :
              /\ i < j
              /\ log[i].kind = "pend" /\ log[i].cand = c
              /\ log[j].kind = "elect" /\ log[j].cand = c
              /\ log[k].kind = "defeat" /\ log[k].cand = d

MovedToHopeful(b, cur, cur2, st2) ==
    LET rk == ballots[b].ranking
    IN  /\ cur2[b] > cur[b] /\ cur2[b] <= Len(rk) + 1
        /\ \A k \in cur[b]..(cur2[b] - 1) : st2[rk[k]] # "hopeful"
        /\ cur2[b] <= Len(rk) => st2[rk[cur2[b]]] = "hopeful"

\* the ballots of T that are topped at d and carry weight after the step
LandedAt(d, T, w2, cur2) == {b \in T \cap ToppedAt(d, cur2) : w2[b] # V0}

\* the vote a set of ballots brings: the sum of weight * multiplier
Brought(T, w2) == VSum([b \in DOMAIN ballots |-> VTimes(w2[b], ballots[b].multiplier)], T)

\* the candidate whose surplus B.3 transfers in this step
Transferred(st, st2) == Elected(st2) \ Elected(st)

\* C29 (amended): a WIGM surplus transfer of candidate c sets the weight of
\* each ballot topped at c to (weight * (c.vote - quota)) / c.vote, truncated;
\* a ballot whose new weight is not zero is advanced to its next hopeful and
\* its weight * m is added to that hopeful's vote; a ballot whose new weight
\* is zero is exhausted and keeps its cursor; afterwards c.vote is the quota,
\* and the weight and cursor of every ballot not topped at c and the vote of
\* every candidate that received no ballot are unchanged.
C29_SurplusTransfer ==
    [][WigmTransferSurplus =>
          \A c \in Transferred(status, status') :
              LET T == ToppedAt(c, cursor)
              IN  /\ \A b \in T :
                        /\ weight'[b] = VDiv(VMul(weight[b], VSub(vote[c], quota), "down"),
                                             vote[c], "down")
                        /\ IF weight'[b] # V0
                           THEN MovedToHopeful(b, cursor, cursor', status')
                           ELSE cursor'[b] = cursor[b]
                  /\ \A b \in DOMAIN ballots \ T :
                        weight'[b] = weight[b] /\ cursor'[b] = cursor[b]
                  /\ vote'[c] = quota
                  /\ \A d \in Cands \ {c} :
                        vote'[d] = VAdd(vote[d], Brought(LandedAt(d, T, weight', cursor'), weight'))]_vars

\* C29 witness: the last step transferred the surplus of a candidate over two
\* ballot lines at a reduced weight, one moved on to a hopeful, and a ballot
\* topped elsewhere still has weight one.
C29_Witness ==
    /\ InWigmCount /\ pc = "loop" /\ Len(log) >= 1
    /\ log[Len(log)].kind = "transfer"
    /\ LET c == log[Len(log)].cand
       IN  /\ status[c] = "elected" /\ vote[c] = quota /\ VGt(surplus, V0)
           /\ \E b \in DOMAIN ballots :
                 /\ ballots[b].ranking[1] = c /\ cursor[b] > 1
                 /\ cursor[b] <= Len(ballots[b].ranking)
                 /\ VGt(weight[b], V0) /\ VGt(V1, weight[b])
                 /\ status[ballots[b].ranking[cursor[b]]] = "hopeful"
           /\ \E b \in DOMAIN ballots : ballots[b].ranking[1] # c /\ weight[b] = V1

\* C29 as stated: every ballot topped at the transferred candidate is
\* advanced to its next hopeful, whatever its new weight.
C29_EveryBallotAdvanced ==
    [][WigmTransferSurplus =>
          \A c \in Transferred(status, status') :
              \A b \in ToppedAt(c, cursor) :
                  MovedToHopeful(b, cursor, cursor', status')]_vars

\* the candidates a step defeats
NewlyDefeated(st, st2) == Defeated(st2) \ Defeated(st)

\* the ballots topped at a candidate of D
ToppedIn(D, cur) == UNION {ToppedAt(c, cur) : c \in D}

\* C30: when WIGM defeats candidates, in a batch or singly, and the count is
\* not complete, every ballot topped at a defeated candidate is advanced to
\* its next hopeful with its weight unchanged, its weight * m is added to that
\* hopeful's vote, and each defeated candidate's vote is then V0; when a batch
\* defeat leaves no more hopefuls than seats to fill, the count finishes and
\* no ballot and no vote is touched.
C30_DefeatTransfer ==
    [][WigmBatchDefeat \/ WigmDefeatLow =>
          LET D    == NewlyDefeated(status, status')
              T    == ToppedIn(D, cursor)
              done == Cardinality(Hopeful(status')) <= SeatsLeftToFill(status')
          IN  /\ weight' = weight
              /\ IF WigmBatchDefeat /\ done
                 THEN /\ pc' = "finish"
                      /\ cursor' = cursor /\ vote' = vote
                      /\ \A i \in DOMAIN log' : log'[i].kind = "transfer" => i \in DOMAIN log
                 ELSE /\ pc' = "loop"
                      /\ \A b \in T : MovedToHopeful(b, cursor, cursor', status')
                      /\ \A b \in DOMAIN ballots \ T : cursor'[b] = cursor[b]
                      /\ \A c \in D : vote'[c] = V0
                      /\ \A d \in Cands \ D :
                            vote'[d] = VAdd(vote[d],
                                            Brought(LandedAt(d, T, weight', cursor'), weight'))]_vars

\* C30 witness: a batch of two candidates has been defeated with the count
\* not complete, and a ballot topped at one of them has moved on, at its
\* weight, to a hopeful that now holds its vote.
C30_Witness ==
    /\ InWigmCount /\ wigmBatch /\ pc = "loop" /\ Len(log) >= 1
    /\ log[Len(log)].kind = "transfer" /\ log[Len(log)].n = round
    /\ Cardinality({c \in Defeated(status) :
                       \E i \in DOMAIN log : log[i] = LogEntry(round, "defeat", c)}) >= 2
    /\ \A c \in Defeated(status) : vote[c] = V0
    /\ \E b \in DOMAIN ballots :
          /\ status[ballots[b].ranking[1]] = "defeated" /\ cursor[b] > 1
          /\ cursor[b] <= Len(ballots[b].ranking) /\ weight[b] = V1
          /\ status[ballots[b].ranking[cursor[b]]] = "hopeful"
          /\ VGe(vote[ballots[b].ranking[cursor[b]]], V(ballots[b].multiplier))

\* the ballots topped at c that are not exhausted
LiveAt(c, w, cur) == {b \in ToppedAt(c, cur) : w[b] # V0}

\* C31: in a WIGM count, at the start of every round (and after B.1 has set
\* the winners pending) the vote of each hopeful or pending candidate is the
\* sum of weight * multiplicity over the ballots that are not exhausted and
\* are topped at it.
C31_VotesMatchBallots ==
    InWigmCount /\ pc \in {"loop", "round"} =>
        \A c \in Hopeful(status) \cup Pending(status) :
            vote[c] = Brought(LiveAt(c, weight, cursor), weight)

\* C31 witness: a round starts with a hopeful whose vote is made of a ballot
\* of its own at weight one and a ballot passed on to it at a smaller weight.
C31_Witness ==
    /\ InWigmCount /\ pc = "loop" /\ round >= 1 /\ WigmContinue(status)
    /\ \E c \in Hopeful(status) :
          /\ \E b \in LiveAt(c, weight, cursor) : cursor[b] = 1 /\ weight[b] = V1
          /\ \E b \in LiveAt(c, weight, cursor) : cursor[b] > 1 /\ VGt(V1, weight[b])
          /\ vote[c] = Brought(LiveAt(c, weight, cursor), weight)

\* the sum of the votes of the hopeful, pending and elected candidates
LiveVotes(st, vt) == VSum(vt, Hopeful(st) \cup Pending(st) \cup Elected(st))

\* C32: in a WIGM count every ballot's weight lies in [V0, V1] and no step
\* increases it, and the votes of the hopeful, pending and elected candidates
\* never sum to more than N: truncation may lose vote mass, never create it.
C32_NoMassCreated ==
    /\ [](InWigmCount =>
             /\ \A b \in DOMAIN ballots : VGe(weight[b], V0) /\ VGe(V1, weight[b])
             /\ VGe(V(NBallots), LiveVotes(status, vote)))
    /\ [][InWigmCount =>
             \A b \in DOMAIN ballots : VGe(weight[b], weight'[b])]_vars

\* C32 witness: a surplus has been transferred at a weight strictly between
\* zero and one, and the live votes sum to less than N although every ballot
\* is still topped at a hopeful, pending or elected candidate.
C32_Witness ==
    /\ InWigmCount /\ pc = "loop" /\ Elected(status) # {}
    /\ \E b \in DOMAIN ballots : VGt(weight[b], V0) /\ VGt(V1, weight[b])
    /\ \A b \in DOMAIN ballots :
          /\ cursor[b] <= Len(ballots[b].ranking)
          /\ status[ballots[b].ranking[cursor[b]]] \in {"hopeful", "pending", "elected"}
    /\ VGt(V(NBallots), LiveVotes(status, vote))

\* C33: in the Warren distribution, for a ballot of any multiplicity m >= 1
\* and keep factors in [V0, V1], the weight of the ballot never becomes
\* negative, its residual never becomes negative, the vote it gives to
\* candidates (m less its residual) never exceeds m, and so the votes of the
\* hopeful and elected candidates never sum to more than N.
C33_WarrenBounded ==
    [][MeekPass /\ warren /\ (\A c \in Cands : VGe(kf[c], V0) /\ VGe(V1, kf[c])) =>
          /\ \A b \in DOMAIN ballots :
                /\ VGe(weight'[b], V0)
                /\ VGe(bresidual'[b], V0)
                /\ VGe(V(ballots[b].multiplier),
                       VSub(V(ballots[b].multiplier), bresidual'[b]))
          /\ VGe(V(NBallots), VSum(vote', HopefulOrElected(status)))]_vars

\* ------------------------------ meek Rule.options, call after call
\* the options a caller hands to meek Rule.options: a variant and a
\* defeat_batch that are known or not, omega and arithmetic given or not
MeekCallOptions ==
    [rule : {"meek", "warren"}, variant : {"unset", "warren", "borda"},
     arithmetic : {"unset", "fixed"}, precision : {1}, guard : {NoValue},
     omega : {NoValue, 3}, defeat_batch : {"unset", "none", "all"}]

MeekCallInit ==
    /\ \E o \in MeekCallOptions : Blank(<<Plumper, o>>)
    /\ FreshClasses
    /\ nCounts = 1 /\ outcomes = <<>>

\* one call of meek Rule.options(options): it returns or raises UsageError
MeekOptionsCall ==
    /\ pc = "start"
    /\ LET r == MeekRuleOptions(options)
       IN  /\ options' = r.options
           /\ warren' = r.warren /\ omega' = r.omega /\ defeatBatch' = r.defeatBatch
           /\ pc' = IF r.raised THEN "usage_error" ELSE "count"
           /\ arith' = IF r.raised THEN arith ELSE MakeArith(r.options)
    /\ UNCHANGED <<profileVars, omegaV, wigmName, wigmBatch, candVars, roundVars,
                   ballotVars, log, procVars>>

\* the caller's next options, in the same process, after a return or a raise
MeekNextOptions ==
    /\ pc \in {"count", "usage_error"} /\ nCounts < MaxCounts
    /\ nCounts' = nCounts + 1
    /\ outcomes' = Append(outcomes, pc)
    /\ \E o \in MeekCallOptions : options' = o /\ given' = o
    /\ arith' = NoArith
    /\ pc' = "start"
    /\ UNCHANGED <<nSeats, withdrawn, ballots, classVars, candVars, roundVars, ballotVars,
                   log>>

MeekCallNext == MeekOptionsCall \/ MeekNextOptions

MeekCallSpec == MeekCallInit /\ [][MeekCallNext]_vars

\* C34: a meek Rule.options call that raises UsageError (unknown variant or
\* unknown defeat_batch) leaves the warren flag, omega, defeatBatch and the
\* caller's options as they were, so that a valid call that omits
\* defeat_batch, made after a first call that raised, returns with the
\* default batch setting 'safe'.
C34_RaiseLeavesConfig ==
    [][MeekOptionsCall =>
          /\ pc' = "usage_error" =>
                /\ warren' = warren /\ omega' = omega /\ defeatBatch' = defeatBatch
                /\ options' = options
          /\ (/\ outcomes = <<"usage_error">>
              /\ ~MeekInvalid(given) /\ given.defeat_batch = "unset") =>
                pc' = "count" /\ defeatBatch' = "safe"]_vars

\* a sequence back to front
Reversed(s) == [i \in 1..Len(s) |-> s[Len(s) + 1 - i]]

\* the status the finish leaves when it starts from st (the pending already
\* elected) and takes the hopefuls H in the order hs
FinishedIn(hs, st) == FinishFrom(hs, 1, st)

\* C35: at the finish of a Meek or WIGM count the remaining hopefuls are
\* treated alike: all of them are elected, when they are no more than the
\* seats left to fill, or all of them are defeated, when no seat is left,
\* never some of each; the outcome is the same when the hopefuls are taken in
\* the opposite order.
C35_FinishUniform ==
    [][MeekFinish \/ WigmFinish =>
          LET H   == Hopeful(status)
              st1 == [c \in Cands |-> IF status[c] = "pending" THEN "elected"
                                      ELSE status[c]]
          IN  /\ \/ /\ H \subseteq Elected(status')
                    /\ Cardinality(H) <= SeatsLeftToFill(status)
                 \/ /\ H \subseteq Defeated(status')
                    /\ SeatsLeftToFill(status) <= 0
              /\ status' = FinishedIn(Reversed(SortByOrder(H)), st1)]_vars

\* C35 witness: a WIGM count has finished by defeating two remaining
\* hopefuls, which keep their votes, after the seats were filled.
C35_Witness ==
    /\ InWigmCount /\ pc = "done" /\ Len(log) >= 2
    /\ Cardinality(Elected(status)) = nSeats
    /\ LET a == log[Len(log) - 1]
           b == log[Len(log)]
       IN  /\ a.kind = "defeat" /\ b.kind = "defeat" /\ a.cand # b.cand
           /\ a.n = round /\ b.n = round
           /\ VGt(vote[a.cand], V0) /\ VGt(vote[b.cand], V0)

\* ------------------------------ Model WIGM (rules/wigm_ref.py)
\* Election, its rounds and its candidate state (modules.election) are not
\* in the source tree: elect(c, pending=True) makes c elected with its
\* transfer pending (status "pending"), unpend(c) leaves it elected,
\* R.advance(c) moves each ballot topped at c to its next hopeful.
RefOptions ==
    {Opt("wigm-ref", a[1], a[2], NoValue, "unset") :
        a \in {<<"integer", NoValue>>, <<"fixed", 1>>, <<"rational", NoValue>>}}
RefProfiles == {p \in FamilyProfiles : p.nSeats <= 2} \cup ScenarioProfiles

RefStart ==
    /\ \E in \in RefProfiles \X RefOptions : Blank(in)
    /\ FreshClasses
    /\ nCounts = 1 /\ outcomes = <<>>

\* Rule.init: the arithmetic of the election
RefNewElection ==
    /\ pc = "start" /\ options.rule = "wigm-ref"
    /\ arith' = MakeArith(options)
    /\ weight' = [b \in DOMAIN ballots |-> OneOf(arith')]
    /\ cursor' = [b \in DOMAIN ballots |-> NextHopeful(ballots[b].ranking, 1, status)]
    /\ pc' = "count"
    /\ UNCHANGED <<profileVars, options, classVars, candVars, roundVars, bresidual,
                   log, procVars>>

\* hasQuota(e, candidate)
RefHasQuota(v, q) == IF Exact THEN VGt(v, q) ELSE VGe(v, q)

\* calcQuota(e)
RefCalcQuota ==
    IF Exact THEN VDiv(V(NBallots), V(nSeats + 1), "down")
    ELSE VAdd(VDiv(V(NBallots), V(nSeats + 1), "down"), Epsilon)

\* b.top.vote = b.top.vote + b.vote over the ballots that are not exhausted,
\* the votes of the candidates of Z first set to zero
RefCounted(Z, vt, w, cur) ==
    [c \in Cands |->
        VAdd(IF c \in Z THEN V0 ELSE vt[c], Brought(LiveAt(c, w, cur), w))]

\* C.elected and the loop test of count()
RefElected(st) == Elected(st) \cup Pending(st)
RefContinue(st) ==
    /\ Cardinality(Hopeful(st) \cup RefElected(st)) > nSeats
    /\ Cardinality(RefElected(st)) < nSeats

\* quota and round 0 votes
RefInit ==
    /\ pc = "count" /\ options.rule = "wigm-ref"
    /\ quota' = RefCalcQuota
    /\ vote' = RefCounted(Hopeful(status), [c \in Cands |-> V0], weight, cursor)
    /\ pc' = "loop"
    /\ UNCHANGED <<profileVars, options, arith, classVars, status, kf, votes, surplus,
                   residual, lastsurplus, iStatus, batch, round, ballotVars, log, procVars>>

\* R.advance(c): the cursors after the ballots topped at c have moved on
RefAdvance(c, cur, w, st) ==
    [b \in DOMAIN ballots |->
        IF b \in LiveAt(c, w, cur) THEN NextHopeful(ballots[b].ranking, cur[b], st)
        ELSE cur[b]]

\* elect new winners, a winner without surplus advanced and unpended at once;
\* acc = [status, cursor]
RECURSIVE RefElectWinners(_, _, _, _)
RefElectWinners(cs, i, acc, vt) ==
    IF i > Len(cs) THEN acc
    ELSE LET c   == cs[i]
             stE == [acc.status EXCEPT ![c] = "elected"]
         IN  IF VEq(vt[c], quota)
             THEN RefElectWinners(cs, i + 1,
                      [status |-> stE,
                       cursor |-> RefAdvance(c, acc.cursor, weight, stE)], vt)
             ELSE RefElectWinners(cs, i + 1,
                      [status |-> [acc.status EXCEPT ![c] = "pending"],
                       cursor |-> acc.cursor], vt)

\* a round that takes an elected candidate holding exactly the quota for its
\* highest surplus and defeats nobody
RefBranchYield(hv, high, low) ==
    IF VGt(hv, quota) THEN "transfer"
    ELSE IF high # {} THEN "none"
    ELSE IF low # {} THEN "defeat" ELSE "none"

\* "if high_vote > R.quota: ... else: ... if low_candidates:"
RefBranch(hv, high, low) ==
    IF VGt(hv, quota) THEN "transfer"
    ELSE IF low # {} THEN "defeat" ELSE "none"

\* one pass of the while loop: count, elect, then transfer the highest
\* surplus or, when no elected candidate is above the quota, defeat the lowest
RefRound ==
    /\ pc = "loop" /\ options.rule = "wigm-ref"
    /\ RefContinue(status)
    /\ round < MaxRounds
    /\ round' = round + 1
    /\ LET vt1  == RefCounted(Hopeful(status) \cup Pending(status), vote, weight, cursor)
           W    == {c \in Hopeful(status) : RefHasQuota(vt1[c], quota)}
           e    == RefElectWinners(SortByOrder(W), 1,
                                   [status |-> status, cursor |-> cursor], vt1)
           es   == SortByOrder(RefElected(e.status))
           hv   == VMaxFrom(es, 1, vt1, quota)
           high == {c \in RefElected(e.status) : VEq(vt1[c], hv)}
           hs   == SortByOrder(Hopeful(e.status))
           lv   == VMinFrom(hs, 1, vt1, quota)
           low  == {c \in Hopeful(e.status) : VEq(vt1[c], lv)}
       IN  IF RefBranch(hv, high, low) = "transfer"
           THEN LET c   == BreakTie(high)
                    sp  == VSub(hv, quota)
                    w2  == [b \in DOMAIN ballots |->
                               IF b \in ToppedAt(c, e.cursor)
                               THEN Reweighted(weight[b], <<sp, hv>>) ELSE weight[b]]
                    st2 == [e.status EXCEPT ![c] = "elected"]
                IN  /\ weight' = w2
                    /\ cursor' = RefAdvance(c, e.cursor, w2, st2)
                    /\ status' = st2
                    /\ vote' = [vt1 EXCEPT ![c] = quota]
                    /\ surplus' = sp
           ELSE IF RefBranch(hv, high, low) = "defeat"
           THEN LET c   == BreakTie(low)
                    st2 == [e.status EXCEPT ![c] = "defeated"]
                IN  /\ status' = st2
                    /\ cursor' = RefAdvance(c, e.cursor, weight, st2)
                    /\ vote' = vt1
                    /\ UNCHANGED <<weight, surplus>>
           ELSE /\ status' = e.status /\ cursor' = e.cursor /\ vote' = vt1
                /\ UNCHANGED <<weight, surplus>>
    /\ pc' = "loop"
    /\ UNCHANGED <<profileVars, options, arith, classVars, kf, quota, votes, residual,
                   lastsurplus, iStatus, batch, bresidual, log, procVars>>

\* election over: unpend the pending, elect or defeat the remaining hopefuls
RefFinish ==
    /\ pc = "loop" /\ options.rule = "wigm-ref"
    /\ ~RefContinue(status)
    /\ LET st1 == [c \in Cands |-> IF status[c] = "pending" THEN "elected" ELSE status[c]]
       IN  status' = FinishFrom(SortByOrder(Hopeful(status)), 1, st1)
    /\ pc' = "done"
    /\ UNCHANGED <<profileVars, options, arith, classVars, vote, kf, roundVars, ballotVars,
                   log, procVars>>

RefNext == RefNewElection \/ RefInit \/ RefRound \/ RefFinish

RefSpec == RefStart /\ [][RefNext]_vars

\* the votes the round counts before it elects
RoundVotes == RefCounted(Hopeful(status) \cup Pending(status), vote, weight, cursor)

\* the elected candidates, old and new, that the round finds above the quota
AboveQuota ==
    {c \in RefElected(status) \cup Hopeful(status) :
        VGt(RoundVotes[c], quota) /\ (c \in Hopeful(status) => RefHasQuota(RoundVotes[c], quota))}

\* C36 (amended): in the Model WIGM counter a round that finds an elected
\* candidate above the quota transfers one surplus and defeats nobody; a
\* hopeful that reaches the quota exactly is elected at once with its
\* ballots moved on, and when no elected candidate is above the quota the
\* same round defeats the lowest hopeful that remains, so a candidate is
\* defeated in an electing round only when every new winner has no surplus.
C36_DefeatOnlyWithoutSurplus ==
    [][RefRound =>
          LET new == RefElected(status') \ RefElected(status)
              out == Defeated(status') \ Defeated(status)
          IN  /\ AboveQuota # {} =>
                    /\ out = {}
                    /\ \E c \in AboveQuota : status'[c] = "elected" /\ vote'[c] = quota
              /\ out # {} =>
                    \A c \in new : /\ VEq(RoundVotes[c], quota) /\ status'[c] = "elected"
                                   /\ LiveAt(c, weight', cursor') = {}
              /\ AboveQuota = {} /\ Hopeful(status) \ new # {} => Cardinality(out) = 1]_vars

\* C36 witness: the first round has elected a candidate holding exactly the
\* quota and defeated another, and the count is not over.
C36_Witness ==
    /\ options.rule = "wigm-ref" /\ pc = "loop" /\ round = 1
    /\ \E c \in Elected(status) : vote[c] = quota
    /\ Pending(status) = {} /\ Defeated(status) # {}
    /\ RefContinue(status)

\* C36 as stated: a round in which a hopeful reaches the quota, exactly or
\* with a surplus, yields to the next round after the transfer: no candidate
\* is defeated in a round that newly elected one.
C36_NoDefeatAfterElect ==
    [][RefRound /\ RefElected(status') # RefElected(status) =>
          Defeated(status') = Defeated(status)]_vars

\* C37: every Meek pass recomputes the quota from votes, the sum of the
\* votes of the hopeful and elected candidates: votes/(S+1) in exact
\* arithmetic, the truncated votes/(S+1) plus epsilon otherwise; a hopeful is
\* elected by the pass iff its vote is above the quota in exact arithmetic
\* and iff it is at least the quota otherwise, so in rational arithmetic a
\* hopeful whose vote equals the quota stays hopeful.
C37_MeekQuota ==
    [][MeekPass =>
          /\ votes' = VSum(vote', HopefulOrElected(status))
          /\ IF Exact
             THEN /\ VTimes(quota', nSeats + 1) = votes'
                  /\ \A c \in Hopeful(status) :
                        status'[c] = "elected" <=> VGt(vote'[c], quota')
                  /\ \A c \in Hopeful(status) :
                        vote'[c] = quota' => status'[c] = "hopeful"
             ELSE /\ quota' = (votes' \div (nSeats + 1)) + Epsilon
                  /\ \A c \in Hopeful(status) :
                        status'[c] = "elected" <=> VGe(vote'[c], quota')]_vars

\* C37 witness: a pass in rational arithmetic has left hopeful a candidate
\* whose vote equals the quota, which is votes/(S+1) with nothing added.
C37_Witness ==
    /\ InMeekCount /\ Exact /\ round >= 1 /\ pc \in {"iterate", "defeat"}
    /\ VTimes(quota, nSeats + 1) = votes /\ VGt(quota, V0)
    /\ \E c \in Hopeful(status) : vote[c] = quota

\* ------------------------------ meek count(): set _omega
\* arithmetic and precision of every kind, omega given or not
OmegaArith ==
    {<<"integer", NoValue>>, <<"rational", NoValue>>}
        \cup {<<"fixed", p>> : p \in 0..4} \cup {<<"guarded", p>> : p \in 0..2}
OmegaOptions ==
    {Opt(r, a[1], a[2], om, "unset") :
        r \in {"meek", "warren"}, a \in OmegaArith, om \in {NoValue, 0, 1, 3}}

OmegaStart ==
    /\ \E o \in OmegaOptions : Blank(<<Plumper, o>>)
    /\ FreshClasses
    /\ nCounts = 1 /\ outcomes = <<>>

\* _omega = V(1) / V(10**omega); a rational 1/10^n is kept as its numerator
\* and the exponent n of its denominator (10^10 is wider than 32 bits)
OmegaThreshold(om, a) ==
    IF a.name = "rational" THEN [num |-> 1, den10 |-> om]
    ELSE VDiv(V1, V(Pow10(om)), "down")

\* "set _omega" of count(), on its own
MeekSetOmega ==
    /\ pc = "count" /\ RuleClass(options) = "meek"
    /\ LET om == IF omega # NoValue /\ omega # 0 THEN omega ELSE DefaultOmega(arith)
       IN  /\ omega' = om
           /\ omegaV' = OmegaThreshold(om, arith)
    /\ pc' = "omega_set"
    /\ UNCHANGED <<profileVars, options, arith, warren, defeatBatch, wigmName, wigmBatch,
                   candVars, roundVars, ballotVars, log, procVars>>

OmegaNext == NewElection \/ MeekSetOmega

OmegaSpec == OmegaStart /\ [][OmegaNext]_vars

\* C38: the Meek convergence exponent omega is the positive integer the user
\* gave, else 10 in rational arithmetic, else floor(2 * precision / 3) in
\* fixed and guarded arithmetic; with a default omega the threshold
\* _omega = V1 / V(10^omega) is strictly positive (it is 10^-omega exactly),
\* at precision 0 too.
C38_Omega ==
    [][MeekSetOmega =>
          /\ omega' = IF given.omega \notin {NoValue, 0} THEN given.omega
                      ELSE IF arith.name = "rational" THEN 10
                      ELSE (2 * arith.precision) \div 3
          /\ given.omega \in {NoValue, 0} =>
                IF arith.name = "rational"
                THEN omegaV'.num > 0 /\ omegaV'.den10 = 10
                ELSE /\ omegaV' > 0
                     /\ omegaV' * Pow10(omega') = V1]_vars

\* C38 witness: a count at precision 0 with no omega given has omega 0 and
\* the threshold one.
C38_Witness ==
    /\ pc = "omega_set" /\ given.omega = NoValue
    /\ arith.name = "fixed" /\ arith.precision = 0
    /\ omega = 0 /\ omegaV = V1 /\ omegaV > 0

====
